---------------------------- MODULE Spec2Model ----------------------------
(***************************************************************************)
(* Stress_tester: the concurrent stress-generation and measurement engine. *)
(*                                                                         *)
(* The model covers the process-wide TimeManager clock, the CPU hashing    *)
(* workers (CPUStressTest), the memory allocator and the bandwidth sampler *)
(* (MemoryStressTest), and the integrated orchestrator                     *)
(* SystemStressTest::run, whose worker functions are textually the same as *)
(* those of the two components.                                            *)
(*                                                                         *)
(* Units: memory is counted in bytes, time in seconds.                     *)
(* Every evaluation of a loop condition is one atomic step; the statements *)
(* between two reads or writes of shared atomics are separate steps.       *)
(***************************************************************************)
EXTENDS Integers, Sequences, FiniteSets, TLC

(***************************************************************************)
(* Bounds of the model.                                                    *)
(***************************************************************************)
\* largest value std::thread::hardware_concurrency() reports in the model
MaxCores == 1
\* hash computations the workers may begin in total (caps hashOps)
MaxOps == 2
\* the clock advances in steps of this many seconds
TickSeconds == 15
\* start() calls a client of a component may make (start/stop cycles)
MaxCycles == 2
\* 1 MiB blocks the system supplies before operator new must fail
MaxBlocks == 6
\* largest allocator ceiling, in blocks, among the configurations explored
MaxCeilingBlocks == 2
\* iterations of the inner batch loop (4500 in the source, scaled)
BATCH_SIZE == 2
\* iterations averaged by one bandwidth round (5 in the source, scaled)
BANDWIDTH_ITERATIONS == 2
\* size of the bandwidth test buffer, in MiB (64 in the source, scaled)
BandwidthTestBlocks == 2
\* largest CHUNK_SIZE among the variants of the CPU worker explored
MaxChunk == 2
\* appends made to a LinkedList modelled on its own
MaxAppends == 3

(***************************************************************************)
(* Program constants.                                                      *)
(***************************************************************************)
TEST_DURATION == 30
blockSize == 1048576
BANDWIDTH_TEST_SIZE == BandwidthTestBlocks * blockSize
\* size_t arithmetic wraps modulo 2^64 bytes.  TLC's integers are 32 bits
\* wide, so the modulus is represented by 2^30 bytes, which like 2^64 is a
\* multiple of the block size and lies far above every amount of memory the
\* model can allocate.
SizeMod == 2^30

\* the latest clock reading of the model
MaxNow == TEST_DURATION

BuildTypes == {"Release", "Debug", "Profiling"}

VARIABLES
    \* environment and configuration, fixed during a behaviour
    buildType,            \* CMAKE_BUILD_TYPE the binary was built with
    hwCores,              \* what std::thread::hardware_concurrency() returns
    MULTIPLIER,           \* memory multiplier
    TARGET_MEMORY,        \* base unit of the allocation target, bytes
    CHUNK_SIZE,           \* computations between two periodic updates
    \* TimeManager
    now,                  \* std::chrono::steady_clock::now()
    startTime, endTime, testStarted, testEnded,
    instance,             \* the singleton exists
    lastQuery,            \* the latest query of the clock and its result
    \* metrics registry and component state
    hashOps, running, memoryAllocated, memoryBandwidth,
    bandwidthTestRunning, bandwidthTestBuffer, memoryBlocks,
    numCores, cpuThreads, consoleMutex,
    \* threads
    cpu,                  \* CPU workers, by thread index
    mem,                  \* the memory allocator thread
    bw,                   \* the bandwidth sampler thread
    ctl,                  \* the controlling thread (client or orchestrator)
    \* process
    console,              \* lines written to std::cout that the model tracks
    terminated,           \* the process was ended by std::terminate / abort
    cycles,               \* start() calls made so far
    \* units modelled on their own
    pool,                 \* the thread running manageThreadPool
    probe,                \* one iteration of the bandwidth measurement
    list,                 \* a LinkedList<std::unique_ptr<int>> and its heap
    ptr                   \* the caller's unique_ptr: what it points to

vars == <<buildType, hwCores, MULTIPLIER, TARGET_MEMORY, CHUNK_SIZE,
          now, startTime, endTime, testStarted, testEnded, instance,
          lastQuery,
          hashOps, running, memoryAllocated, memoryBandwidth,
          bandwidthTestRunning, bandwidthTestBuffer, memoryBlocks,
          numCores, cpuThreads, consoleMutex,
          cpu, mem, bw, ctl, console, terminated, cycles,
          pool, probe, list, ptr>>

envVars == <<buildType, hwCores, MULTIPLIER, TARGET_MEMORY, CHUNK_SIZE>>
clockVars ==
    <<startTime, endTime, testStarted, testEnded, instance, lastQuery>>
cpuVars == <<hashOps, cpu, cpuThreads, numCores>>
memVars == <<memoryAllocated, memoryBlocks, mem>>
bwVars == <<memoryBandwidth, bandwidthTestRunning, bandwidthTestBuffer, bw>>
procVars == <<console, consoleMutex, terminated>>
ctlVars == <<ctl, cycles>>
pureVars == <<probe, list, ptr>>
unitVars == <<pool, pureVars>>

\* the process is alive: std::terminate / abort ends every thread
Alive == ~terminated

\* the thread pool manager may be given one core more than the clients
MaxThreads == MaxCores + 1

\* thread index w stands for threadId w - 1
Workers == 1..MaxThreads

(***************************************************************************)
(* TimeManager                                                             *)
(***************************************************************************)
\* a reading that always takes the current instant
getElapsedSeconds_ignoring_end ==
    IF ~testStarted THEN 0 ELSE now - startTime

\* getElapsedSeconds(): 0 before the start, frozen at endTime once ended
getElapsedSeconds ==
    IF ~testStarted THEN 0
    ELSE (IF testEnded THEN endTime ELSE now) - startTime

\* getElapsedMilliseconds(): the same reading in milliseconds
getElapsedMilliseconds ==
    IF ~testStarted THEN 0
    ELSE ((IF testEnded THEN endTime ELSE now) - startTime) * 1000

\* no query of the clock has been made
NoQuery ==
    [op |-> "none", arg |-> 0, value |-> 0, started |-> FALSE,
     seconds |-> 0, milliseconds |-> 0, continue |-> FALSE]

shouldContinue(maxDurationSeconds) ==
    getElapsedSeconds < maxDurationSeconds

\* a startTimer() that stamps the start instant on every call
startTimer_restamping ==
    /\ startTime' = now
    /\ testStarted' = TRUE

startTimer ==
    IF ~testStarted
    THEN /\ startTime' = now
         /\ testStarted' = TRUE
    ELSE UNCHANGED <<startTime, testStarted>>

\* an end that does not require a started timer
endTimer_on_unstarted ==
    IF ~testEnded
    THEN /\ endTime' = now
         /\ testEnded' = TRUE
    ELSE UNCHANGED <<endTime, testEnded>>

endTimer ==
    IF testStarted /\ ~testEnded
    THEN /\ endTime' = now
         /\ testEnded' = TRUE
    ELSE UNCHANGED <<endTime, testEnded>>

\* a reset that forgets only the start
reset_keeping_ended ==
    /\ testStarted' = FALSE
    /\ testEnded' = testEnded

reset ==
    /\ testStarted' = FALSE
    /\ testEnded' = FALSE

\* The steady clock advances.  Its reading is observable only through the
\* elapsed time of a timer that has been started and not ended, so it is
\* advanced only then, and until the elapsed time has reached TEST_DURATION.
Tick ==
    /\ Alive
    /\ testStarted
    /\ ~testEnded
    /\ now - startTime < TEST_DURATION
    /\ now < MaxNow
    /\ now' = now + TickSeconds
    /\ UNCHANGED <<envVars, unitVars, clockVars, running, cpuVars, memVars,
                   bwVars, procVars, ctlVars>>

(***************************************************************************)
(* CPU worker: CPUStressTest::cpuHashStressTest                            *)
(***************************************************************************)
NoThread == [pc |-> "none", i |-> 0, localHashOps |-> 0, sawStop |-> FALSE]
NewCpuThread == [pc |-> "outer", i |-> 0, localHashOps |-> 0, sawStop |-> FALSE]

\* computations a worker has begun or finished but not yet added to hashOps
Pending(w) ==
    cpu[w].localHashOps + (IF cpu[w].pc = "compute" THEN 1 ELSE 0)

RECURSIVE SumPending(_)
SumPending(S) ==
    IF S = {} THEN 0
    ELSE LET w == CHOOSE x \in S : TRUE
         IN Pending(w) + SumPending(S \ {w})

\* the local counts the workers of S have not yet added to hashOps
RECURSIVE SumLocal(_)
SumLocal(S) ==
    IF S = {} THEN 0
    ELSE LET w == CHOOSE x \in S : TRUE
         IN cpu[w].localHashOps + SumLocal(S \ {w})

\* running && timeManager.shouldContinue(TEST_DURATION)
LoopCond == running /\ shouldContinue(TEST_DURATION)

\* line 64: while (running && timeManager.shouldContinue(TEST_DURATION))
Cpu_outer(w) ==
    /\ Alive
    /\ cpu[w].pc = "outer"
    /\ cpu' = [cpu EXCEPT ![w].pc = IF LoopCond THEN "inner" ELSE "done",
                          ![w].i = 0,
                          ![w].sawStop = @ \/ ~running]
    /\ UNCHANGED <<envVars, unitVars, now, clockVars, running, hashOps,
                   cpuThreads, numCores, memVars, bwVars, procVars, ctlVars>>

\* a worker whose batch loop does not look at the running flag
Cpu_inner_ignoring_running(w) ==
    /\ Alive
    /\ cpu[w].pc = "inner"
    /\ IF cpu[w].i < BATCH_SIZE /\ shouldContinue(TEST_DURATION)
       THEN /\ hashOps + SumPending(Workers) < MaxOps
            /\ cpu' = [cpu EXCEPT ![w].pc = "compute"]
       ELSE cpu' = [cpu EXCEPT ![w].pc = "flush"]
    /\ UNCHANGED <<envVars, unitVars, now, clockVars, running, hashOps,
                   cpuThreads, numCores, memVars, bwVars, procVars, ctlVars>>

\* line 68: for (...; i < BATCH_SIZE && running && shouldContinue(...); ++i)
\* A new computation is begun only while the model's cap on hashOps allows
\* it; a computation once begun can always be completed and counted.
Cpu_inner(w) ==
    /\ Alive
    /\ cpu[w].pc = "inner"
    /\ IF cpu[w].i < BATCH_SIZE /\ LoopCond
       THEN /\ hashOps + SumPending(Workers) < MaxOps
            /\ cpu' = [cpu EXCEPT ![w].pc = "compute"]
       ELSE cpu' = [cpu EXCEPT ![w].pc = "flush",
                               ![w].sawStop =
                                   @ \/ (cpu[w].i < BATCH_SIZE /\ ~running)]
    /\ UNCHANGED <<envVars, unitVars, now, clockVars, running, hashOps,
                   cpuThreads, numCores, memVars, bwVars, procVars, ctlVars>>

\* lines 70-82: computeIntensiveHash(...); ++localHashOps
Cpu_compute(w) ==
    /\ Alive
    /\ cpu[w].pc = "compute"
    /\ cpu' = [cpu EXCEPT ![w].pc = "chunk",
                          ![w].localHashOps = @ + 1]
    /\ UNCHANGED <<envVars, unitVars, now, clockVars, running, hashOps,
                   cpuThreads, numCores, memVars, bwVars, procVars, ctlVars>>

\* lines 85-88 and the ++i of line 68
Cpu_chunk(w) ==
    /\ Alive
    /\ cpu[w].pc = "chunk"
    /\ IF cpu[w].localHashOps % CHUNK_SIZE = 0
       THEN /\ hashOps' = hashOps + CHUNK_SIZE
            /\ cpu' = [cpu EXCEPT ![w].pc = "inner",
                                  ![w].localHashOps = 0,
                                  ![w].i = @ + 1]
       ELSE /\ hashOps' = hashOps
            /\ cpu' = [cpu EXCEPT ![w].pc = "inner", ![w].i = @ + 1]
    /\ UNCHANGED <<envVars, unitVars, now, clockVars, running, cpuThreads,
                   numCores, memVars, bwVars, procVars, ctlVars>>

\* a worker that drops the count of a partial batch
Cpu_flush_discarding(w) ==
    /\ Alive
    /\ cpu[w].pc = "flush"
    /\ hashOps' = hashOps
    /\ cpu' = [cpu EXCEPT ![w].pc = "outer", ![w].localHashOps = 0]
    /\ UNCHANGED <<envVars, unitVars, now, clockVars, running, cpuThreads,
                   numCores, memVars, bwVars, procVars, ctlVars>>

\* lines 92-95: add the remaining operations to the shared counter
Cpu_flush(w) ==
    /\ Alive
    /\ cpu[w].pc = "flush"
    /\ IF cpu[w].localHashOps > 0
       THEN /\ hashOps' = hashOps + cpu[w].localHashOps
            /\ cpu' = [cpu EXCEPT ![w].pc = "outer", ![w].localHashOps = 0]
       ELSE /\ hashOps' = hashOps
            /\ cpu' = [cpu EXCEPT ![w].pc = "outer"]
    /\ UNCHANGED <<envVars, unitVars, now, clockVars, running, cpuThreads,
                   numCores, memVars, bwVars, procVars, ctlVars>>

AllCpuDone == \A w \in Workers : cpu[w].pc \in {"none", "done"}

(***************************************************************************)
(* CPUStressTest: the public interface, as a client thread drives it       *)
(***************************************************************************)
\* assert() is compiled out by -DNDEBUG, which the Release build sets
AssertsEnabled == buildType # "Release"

\* the indices of the threads start() launches: threadId 0 .. numCores - 1
Launched(n) == {w \in Workers : w <= n}

RECURSIVE SeqOfRange(_, _)
SeqOfRange(a, b) == IF a > b THEN <<>> ELSE <<a>> \o SeqOfRange(a + 1, b)

\* CPUStressTest::initialize
CPU_initialize ==
    /\ Alive
    /\ ctl \in {"new", "joined"}
    /\ numCores' = hwCores
    /\ IF hwCores = 0 /\ AssertsEnabled
       THEN /\ terminated' = TRUE
            /\ UNCHANGED <<hashOps, running, ctl>>
       ELSE /\ hashOps' = 0
            /\ running' = TRUE
            /\ ctl' = "init"
            /\ UNCHANGED terminated
    /\ UNCHANGED <<envVars, unitVars, now, clockVars, cpu, cpuThreads,
                   memVars, bwVars, console, consoleMutex, cycles>>

\* CPUStressTest::start
CPU_start ==
    /\ Alive
    /\ ctl \in {"init", "joined"}
    /\ cycles < MaxCycles
    /\ numCores <= MaxCores
    /\ cpuThreads' = cpuThreads \o SeqOfRange(1, numCores)
    /\ cpu' = [w \in Workers |->
                 IF w \in Launched(numCores) THEN NewCpuThread ELSE cpu[w]]
    /\ ctl' = "started"
    /\ cycles' = cycles + 1
    /\ UNCHANGED <<envVars, unitVars, now, clockVars, running, hashOps,
                   numCores, memVars, bwVars, procVars>>

\* a stop that leaves the flag as it is
CPU_stop_keeping_running ==
    /\ Alive
    /\ ctl \in {"init", "started"}
    /\ running' = running
    /\ ctl' = "stopped"
    /\ UNCHANGED <<envVars, unitVars, now, clockVars, cpuVars, memVars, bwVars,
                   procVars, cycles>>

\* CPUStressTest::stop
CPU_stop ==
    /\ Alive
    /\ ctl \in {"init", "started"}
    /\ running' = FALSE
    /\ ctl' = "stopped"
    /\ UNCHANGED <<envVars, unitVars, now, clockVars, cpuVars, memVars, bwVars,
                   procVars, cycles>>

\* CPUStressTest::waitForCompletion is entered
CPU_waitEnter ==
    /\ Alive
    /\ ctl = "stopped"
    /\ ctl' = "waiting"
    /\ UNCHANGED <<envVars, unitVars, now, clockVars, running, cpuVars,
                   memVars, bwVars, procVars, cycles>>

\* CPUStressTest::waitForCompletion returns: every thread of cpuThreads has
\* been joined, which blocks until the thread function has returned
CPU_waitForCompletion ==
    /\ Alive
    /\ ctl = "waiting"
    /\ \A k \in 1..Len(cpuThreads) : cpu[cpuThreads[k]].pc = "done"
    /\ cpu' = [w \in Workers |->
                 IF \E k \in 1..Len(cpuThreads) : cpuThreads[k] = w
                 THEN NoThread ELSE cpu[w]]
    /\ cpuThreads' = <<>>
    /\ ctl' = "joined"
    /\ UNCHANGED <<envVars, unitVars, now, clockVars, running, hashOps,
                   numCores, memVars, bwVars, procVars, cycles>>

\* CPUStressTest::getHashOperations, read by the client between the cycles
CPU_getHashOperations ==
    /\ Alive
    /\ ctl \in {"init", "joined"}
    /\ lastQuery' = [NoQuery EXCEPT !.op = "getHashOperations",
                                    !.value = hashOps]
    /\ UNCHANGED <<envVars, unitVars, now, startTime, endTime, testStarted,
                   testEnded, instance, running, cpuVars, memVars, bwVars,
                   procVars, ctlVars>>

(***************************************************************************)
(* CPUStressTest::manageThreadPool, the elastic control loop.  Nothing in  *)
(* the sources starts it; it is modelled as a thread of its own next to a  *)
(* client that refreshes the display and calls stop().                     *)
(***************************************************************************)
NoPool == [pc |-> "none", systemLoad |-> 0, lastOps |-> 0, lastCheck |-> 0]
NewPoolThread == [NoPool EXCEPT !.pc = "loop"]

\* loads in percent that a non-zero rate of hash operations may be
\* normalised to; one model operation stands for any number of real ones
Loads == {10, 25, 75, 90}

\* the marks of lines 105 and 112, in percent
HighWaterMark == 75
LowWaterMark == 25

\* getCurrentSystemLoad(): the loads it can return, in percent
getCurrentSystemLoad ==
    IF getElapsedMilliseconds - pool.lastCheck = 0 THEN {50}
    ELSE IF hashOps = pool.lastOps THEN {0}
    ELSE Loads

\* line 100: while (running && timeManager.shouldContinue(TEST_DURATION))
Pool_loop ==
    /\ Alive
    /\ pool.pc = "loop"
    /\ pool' = [pool EXCEPT !.pc = IF LoopCond THEN "sample" ELSE "done"]
    /\ UNCHANGED <<envVars, pureVars, now, clockVars, running, cpuVars,
                   memVars, bwVars, procVars, ctlVars>>

\* line 101: float systemLoad = getCurrentSystemLoad();
Pool_sample ==
    /\ Alive
    /\ pool.pc = "sample"
    /\ \E load \in getCurrentSystemLoad :
          pool' = [pc |-> "lock",
                   systemLoad |-> load,
                   lastOps |-> IF getElapsedMilliseconds - pool.lastCheck = 0
                               THEN pool.lastOps ELSE hashOps,
                   lastCheck |-> getElapsedMilliseconds]
    /\ UNCHANGED <<envVars, pureVars, now, clockVars, running, cpuVars,
                   memVars, bwVars, procVars, ctlVars>>

\* line 103: std::lock_guard<std::mutex> lock(consoleMutex);
Pool_lock ==
    /\ Alive
    /\ pool.pc = "lock"
    /\ consoleMutex = "free"
    /\ consoleMutex' = "pool"
    /\ pool' = [pool EXCEPT !.pc = "decide"]
    /\ UNCHANGED <<envVars, pureVars, now, clockVars, running, cpuVars,
                   memVars, bwVars, console, terminated, ctlVars>>

\* a manager that removes a worker whatever the size of the pool
Pool_decide_removing_the_last ==
    /\ Alive
    /\ pool.pc = "decide"
    /\ IF /\ pool.systemLoad > HighWaterMark
          /\ Len(cpuThreads) < numCores
       THEN /\ Len(cpuThreads) + 1 \in Workers
            /\ cpuThreads' = Append(cpuThreads, Len(cpuThreads) + 1)
            /\ cpu' = [cpu EXCEPT ![Len(cpuThreads) + 1] = NewCpuThread]
            /\ console' =
                   Append(console, [text |-> "Adding thread due to high load"])
            /\ pool' = [pool EXCEPT !.pc = "sleep"]
       ELSE /\ pool' = [pool EXCEPT !.pc =
                           IF /\ pool.systemLoad < LowWaterMark
                              /\ Len(cpuThreads) > 0
                           THEN "join" ELSE "sleep"]
            /\ UNCHANGED <<cpuThreads, cpu, console>>
    /\ UNCHANGED <<envVars, pureVars, now, clockVars, running, hashOps,
                   numCores, memVars, bwVars, consoleMutex, terminated,
                   ctlVars>>

\* lines 105-112: add a worker above the high-water mark, begin to remove
\* the most recently added one below the low-water mark
Pool_decide ==
    /\ Alive
    /\ pool.pc = "decide"
    /\ IF /\ pool.systemLoad > HighWaterMark
          /\ Len(cpuThreads) < numCores
       THEN /\ Len(cpuThreads) + 1 \in Workers
            /\ cpuThreads' = Append(cpuThreads, Len(cpuThreads) + 1)
            /\ cpu' = [cpu EXCEPT ![Len(cpuThreads) + 1] = NewCpuThread]
            /\ console' =
                   Append(console, [text |-> "Adding thread due to high load"])
            /\ pool' = [pool EXCEPT !.pc = "sleep"]
       ELSE /\ pool' = [pool EXCEPT !.pc =
                           IF /\ pool.systemLoad < LowWaterMark
                              /\ Len(cpuThreads) > 1
                           THEN "join" ELSE "sleep"]
            /\ UNCHANGED <<cpuThreads, cpu, console>>
    /\ UNCHANGED <<envVars, pureVars, now, clockVars, running, hashOps,
                   numCores, memVars, bwVars, consoleMutex, terminated,
                   ctlVars>>

\* lines 113-120: cpuThreads.back().join() returns once the thread function
\* of the last worker has returned; then pop_back() and the message
Pool_join ==
    /\ Alive
    /\ pool.pc = "join"
    /\ cpu[cpuThreads[Len(cpuThreads)]].pc = "done"
    /\ cpu' = [cpu EXCEPT ![cpuThreads[Len(cpuThreads)]] = NoThread]
    /\ cpuThreads' = SubSeq(cpuThreads, 1, Len(cpuThreads) - 1)
    /\ console' =
           Append(console, [text |-> "Removing thread due to low load"])
    /\ pool' = [pool EXCEPT !.pc = "sleep"]
    /\ UNCHANGED <<envVars, pureVars, now, clockVars, running, hashOps,
                   numCores, memVars, bwVars, consoleMutex, terminated,
                   ctlVars>>

\* lines 123-124: sleep_for(2 s) with the lock still held, then the
\* lock_guard goes out of scope
Pool_sleep ==
    /\ Alive
    /\ pool.pc = "sleep"
    /\ consoleMutex' = "free"
    /\ pool' = [pool EXCEPT !.pc = "loop"]
    /\ UNCHANGED <<envVars, pureVars, now, clockVars, running, cpuVars,
                   memVars, bwVars, console, terminated, ctlVars>>

\* the client refreshes the display: it takes consoleMutex for the write
Pool_updateDisplay ==
    /\ Alive
    /\ ctl = "started"
    /\ consoleMutex = "free"
    /\ lastQuery' = [NoQuery EXCEPT !.op = "updateDisplay",
                                    !.seconds = getElapsedSeconds]
    /\ UNCHANGED <<envVars, unitVars, now, startTime, endTime, testStarted,
                   testEnded, instance, running, cpuVars, memVars, bwVars,
                   procVars, ctlVars>>

(***************************************************************************)
(* TimeManager calls made by the client thread                             *)
(***************************************************************************)
TM_startTimer ==
    /\ Alive
    /\ ctl \in {"init", "joined"}
    /\ startTimer
    /\ UNCHANGED <<envVars, unitVars, now, endTime, testEnded, instance,
                   lastQuery, running, cpuVars, memVars, bwVars, procVars,
                   ctlVars>>

TM_endTimer ==
    /\ Alive
    /\ ctl \in {"started", "stopped"}
    /\ endTimer
    /\ UNCHANGED <<envVars, unitVars, now, startTime, testStarted, instance,
                   lastQuery, running, cpuVars, memVars, bwVars, procVars,
                   ctlVars>>

TM_reset ==
    /\ Alive
    /\ ctl \in {"init", "joined"}
    /\ reset
    /\ UNCHANGED <<envVars, unitVars, now, startTime, endTime, instance,
                   lastQuery, running, cpuVars, memVars, bwVars, procVars,
                   ctlVars>>

(***************************************************************************)
(* TimeManager on its own: threads call and query the clock in any order   *)
(* while time passes                                                       *)
(***************************************************************************)
\* the clock readings explored: up to one test duration per cycle
ClockHorizon == MaxCycles * TEST_DURATION

\* arguments of shouldContinue explored: it takes an int
Durations == {-1, 0, TickSeconds, TEST_DURATION}

Clk_startTimer ==
    /\ Alive
    /\ ctl = "clock"
    /\ startTimer
    /\ UNCHANGED <<envVars, unitVars, now, endTime, testEnded, instance,
                   lastQuery, running, cpuVars, memVars, bwVars, procVars,
                   ctlVars>>

Clk_endTimer ==
    /\ Alive
    /\ ctl = "clock"
    /\ endTimer
    /\ UNCHANGED <<envVars, unitVars, now, startTime, testStarted, instance,
                   lastQuery, running, cpuVars, memVars, bwVars, procVars,
                   ctlVars>>

Clk_reset ==
    /\ Alive
    /\ ctl = "clock"
    /\ reset
    /\ UNCHANGED <<envVars, unitVars, now, startTime, endTime, instance,
                   lastQuery, running, cpuVars, memVars, bwVars, procVars,
                   ctlVars>>

\* a thread reads the elapsed time, in seconds and in milliseconds
Clk_getElapsed ==
    /\ Alive
    /\ ctl = "clock"
    /\ lastQuery' = [op |-> "getElapsed", arg |-> 0, value |-> 0,
                     started |-> testStarted,
                     seconds |-> getElapsedSeconds,
                     milliseconds |-> getElapsedMilliseconds,
                     continue |-> FALSE]
    /\ UNCHANGED <<envVars, unitVars, now, startTime, endTime, testStarted,
                   testEnded, instance, running, cpuVars, memVars, bwVars,
                   procVars, ctlVars>>

\* a thread asks shouldContinue(maxDurationSeconds)
Clk_shouldContinue ==
    /\ Alive
    /\ ctl = "clock"
    /\ \E maxDurationSeconds \in Durations :
          lastQuery' = [op |-> "shouldContinue", arg |-> maxDurationSeconds,
                        value |-> 0,
                        started |-> testStarted,
                        seconds |-> getElapsedSeconds,
                        milliseconds |-> getElapsedMilliseconds,
                        continue |-> shouldContinue(maxDurationSeconds)]
    /\ UNCHANGED <<envVars, unitVars, now, startTime, endTime, testStarted,
                   testEnded, instance, running, cpuVars, memVars, bwVars,
                   procVars, ctlVars>>

\* hasStarted() and hasEnded(): one atomic load each, without timeMutex
hasStarted == testStarted
hasEnded == testEnded

\* reset() as the lock-free getters see it: timeMutex is taken and line 99
\* stores testStarted = false ...
Clk_reset_started ==
    /\ Alive
    /\ ctl = "clock"
    /\ testStarted' = FALSE
    /\ ctl' = "clock_reset"
    /\ UNCHANGED <<envVars, unitVars, now, startTime, endTime, testEnded,
                   instance, lastQuery, running, cpuVars, memVars, bwVars,
                   procVars, cycles>>

\* ... then line 100 stores testEnded = false and timeMutex is released
Clk_reset_ended ==
    /\ Alive
    /\ ctl = "clock_reset"
    /\ testEnded' = FALSE
    /\ ctl' = "clock"
    /\ UNCHANGED <<envVars, unitVars, now, startTime, endTime, testStarted,
                   instance, lastQuery, running, cpuVars, memVars, bwVars,
                   procVars, cycles>>

\* a thread calls hasStarted(), whether or not another holds timeMutex
Clk_hasStarted ==
    /\ Alive
    /\ ctl \in {"clock", "clock_reset"}
    /\ lastQuery' = [NoQuery EXCEPT !.op = "hasStarted",
                                    !.started = hasStarted]
    /\ UNCHANGED <<envVars, unitVars, now, startTime, endTime, testStarted,
                   testEnded, instance, running, cpuVars, memVars, bwVars,
                   procVars, ctlVars>>

\* a thread calls hasEnded(), whether or not another holds timeMutex
Clk_hasEnded ==
    /\ Alive
    /\ ctl \in {"clock", "clock_reset"}
    /\ lastQuery' = [NoQuery EXCEPT !.op = "hasEnded",
                                    !.value = IF hasEnded THEN 1 ELSE 0]
    /\ UNCHANGED <<envVars, unitVars, now, startTime, endTime, testStarted,
                   testEnded, instance, running, cpuVars, memVars, bwVars,
                   procVars, ctlVars>>

\* time passes, whatever the state of the timer
Clk_advance ==
    /\ Alive
    /\ ctl = "clock"
    /\ now < ClockHorizon
    /\ now' = now + TickSeconds
    /\ UNCHANGED <<envVars, unitVars, clockVars, running, cpuVars, memVars,
                   bwVars, procVars, ctlVars>>

(***************************************************************************)
(* LinkedList<T>, the retention list, with T = std::unique_ptr<int>.       *)
(* Nodes are numbered in the order in which `new Node` returns them.       *)
(***************************************************************************)
nullptr == 0

\* the nodes of the heap
Nodes == 1..MaxAppends

\* the values the caller's unique_ptr may point to
Values == {42, 100, 200}

\* LinkedList(): head(nullptr), tail(nullptr), size(0); no node allocated
LinkedList ==
    [head |-> nullptr, tail |-> nullptr, size |-> 0,
     data |-> [n \in Nodes |-> nullptr], next |-> [n \in Nodes |-> nullptr],
     allocated |-> 0]

\* a push_back that links the new node but leaves tail where it was
push_back_keeping_tail(l, value) ==
    LET newNode == l.allocated + 1
        made == [l EXCEPT !.allocated = newNode,
                          !.data[newNode] = value,
                          !.next[newNode] = nullptr]
    IN IF l.head = nullptr
       THEN [made EXCEPT !.head = newNode, !.tail = newNode,
                         !.size = @ + 1]
       ELSE [made EXCEPT !.next[l.tail] = newNode,
                         !.size = @ + 1]

\* push_back(T &&value): the list after the call
push_back(l, value) ==
    LET newNode == l.allocated + 1
        made == [l EXCEPT !.allocated = newNode,
                          !.data[newNode] = value,
                          !.next[newNode] = nullptr]
    IN IF l.head = nullptr
       THEN [made EXCEPT !.head = newNode, !.tail = newNode,
                         !.size = @ + 1]
       ELSE [made EXCEPT !.next[l.tail] = newNode, !.tail = newNode,
                         !.size = @ + 1]

\* getSize()
getSize(l) == l.size

\* the nodes reached from node n over next, at most k of them
RECURSIVE Chain(_, _, _)
Chain(l, n, k) ==
    IF n = nullptr \/ k = 0 THEN <<>>
    ELSE <<n>> \o Chain(l, l.next[n], k - 1)

\* the values stored from head on
Contents(l) ==
    LET chain == Chain(l, l.head, MaxAppends + 1)
    IN [i \in 1..Len(chain) |-> l.data[chain[i]]]

\* the caller makes a unique_ptr: std::make_unique<int>(v)
List_make ==
    /\ Alive
    /\ ctl = "list"
    /\ ptr = nullptr
    /\ \E v \in Values : ptr' = v
    /\ UNCHANGED <<envVars, pool, probe, list, now, clockVars, running,
                   cpuVars, memVars, bwVars, procVars, ctlVars>>

\* the caller appends it: list.push_back(std::move(ptr)); the Node's
\* constructor moves from the unique_ptr, which is null afterwards
List_push_back ==
    /\ Alive
    /\ ctl = "list"
    /\ ptr # nullptr
    /\ list.allocated < MaxAppends
    /\ list' = push_back(list, ptr)
    /\ ptr' = nullptr
    /\ UNCHANGED <<envVars, pool, probe, now, clockVars, running,
                   cpuVars, memVars, bwVars, procVars, ctlVars>>

(***************************************************************************)
(* Memory allocator: MemoryStressTest::memoryStressTest                    *)
(***************************************************************************)
\* failure records which allocation threw std::bad_alloc, reports counts the
\* diagnostics the thread has printed
NoMem == [pc |-> "none", sawStop |-> FALSE, failure |-> "none", reports |-> 0]
NewMemThread ==
    [pc |-> "check", sawStop |-> FALSE, failure |-> "none", reports |-> 0]

getTargetMemory == (TARGET_MEMORY * MULTIPLIER) % SizeMod
getBandwidthTestSize == BANDWIDTH_TEST_SIZE

\* (MULTIPLIER * TARGET_MEMORY) - BANDWIDTH_TEST_SIZE, in size_t arithmetic
AllocCeiling ==
    (MULTIPLIER * TARGET_MEMORY - BANDWIDTH_TEST_SIZE) % SizeMod

\* an allocator whose loop has no ceiling test
Mem_check_without_ceiling ==
    /\ Alive
    /\ mem.pc = "check"
    /\ mem' = [mem EXCEPT
                 !.pc = IF running /\ shouldContinue(TEST_DURATION)
                        THEN "alloc" ELSE "done",
                 !.sawStop = @ \/ ~running]
    /\ UNCHANGED <<envVars, unitVars, now, clockVars, running, cpuVars,
                   memoryAllocated, memoryBlocks, bwVars, procVars, ctlVars>>

\* an allocator that compares against the whole target, as the variant
\* without a bandwidth buffer does
Mem_check_without_reservation ==
    /\ Alive
    /\ mem.pc = "check"
    /\ mem' = [mem EXCEPT
                 !.pc = IF /\ running
                           /\ memoryAllocated < getTargetMemory
                           /\ shouldContinue(TEST_DURATION)
                        THEN "alloc" ELSE "done",
                 !.sawStop = @ \/ ~running]
    /\ UNCHANGED <<envVars, unitVars, now, clockVars, running, cpuVars,
                   memoryAllocated, memoryBlocks, bwVars, procVars, ctlVars>>

\* line 127: while (running && memoryAllocated < ... && shouldContinue(...))
Mem_check ==
    /\ Alive
    /\ mem.pc = "check"
    /\ mem' = [mem EXCEPT
                 !.pc = IF /\ running
                           /\ memoryAllocated < AllocCeiling
                           /\ shouldContinue(TEST_DURATION)
                        THEN "alloc" ELSE "done",
                 !.sawStop = @ \/ ~running]
    /\ UNCHANGED <<envVars, unitVars, now, clockVars, running, cpuVars,
                   memoryAllocated, memoryBlocks, bwVars, procVars, ctlVars>>

\* an allocator that counts the block before it asks for it
Mem_alloc_counting_first ==
    /\ Alive
    /\ mem.pc = "alloc"
    /\ memoryAllocated' = (memoryAllocated + blockSize) % SizeMod
    /\ \/ /\ Len(memoryBlocks) < MaxBlocks
          /\ mem' = [mem EXCEPT !.pc = "insert"]
       \/ mem' = [mem EXCEPT !.pc = "catch", !.failure = "block"]
    /\ UNCHANGED <<envVars, unitVars, now, clockVars, running, cpuVars,
                   memoryBlocks, bwVars, procVars, ctlVars>>

\* lines 132-142: std::make_unique<std::vector<int>>(blockSize / 4, 1)
\* either yields the block or throws std::bad_alloc, which the system may
\* do at any time and must do once it has no block left to give
Mem_alloc ==
    /\ Alive
    /\ mem.pc = "alloc"
    /\ \/ /\ Len(memoryBlocks) < MaxBlocks
          /\ mem' = [mem EXCEPT !.pc = "count"]
       \/ mem' = [mem EXCEPT !.pc = "catch", !.failure = "block"]
    /\ UNCHANGED <<envVars, unitVars, now, clockVars, running, cpuVars,
                   memoryAllocated, memoryBlocks, bwVars, procVars, ctlVars>>

\* an allocator that counts the elements of the block instead of its bytes
Mem_count_counting_elements ==
    /\ Alive
    /\ mem.pc = "count"
    /\ memoryAllocated' = (memoryAllocated + blockSize \div 4) % SizeMod
    /\ mem' = [mem EXCEPT !.pc = "insert"]
    /\ UNCHANGED <<envVars, unitVars, now, clockVars, running, cpuVars,
                   memoryBlocks, bwVars, procVars, ctlVars>>

\* line 145: memoryAllocated += blockSize
Mem_count ==
    /\ Alive
    /\ mem.pc = "count"
    /\ memoryAllocated' = (memoryAllocated + blockSize) % SizeMod
    /\ mem' = [mem EXCEPT !.pc = "insert"]
    /\ UNCHANGED <<envVars, unitVars, now, clockVars, running, cpuVars,
                   memoryBlocks, bwVars, procVars, ctlVars>>

\* an allocator that takes the block back out of the counter when the list
\* cannot take it
Mem_insert_uncounting_on_failure ==
    /\ Alive
    /\ mem.pc = "insert"
    /\ \/ /\ memoryBlocks' = Append(memoryBlocks, 1)
          /\ memoryAllocated' = memoryAllocated
          /\ mem' = [mem EXCEPT !.pc = "check"]
       \/ /\ memoryBlocks' = memoryBlocks
          /\ memoryAllocated' = (memoryAllocated - blockSize) % SizeMod
          /\ mem' = [mem EXCEPT !.pc = "catch", !.failure = "node"]
    /\ UNCHANGED <<envVars, unitVars, now, clockVars, running, cpuVars, bwVars,
                   procVars, ctlVars>>

\* line 148: memoryBlocks.Insert_At_End(std::move(block)); the new Node may
\* throw std::bad_alloc, and the block, not yet owned by the list, is freed
Mem_insert ==
    /\ Alive
    /\ mem.pc = "insert"
    /\ \/ /\ memoryBlocks' = Append(memoryBlocks, 1)
          /\ mem' = [mem EXCEPT !.pc = "check"]
       \/ /\ memoryBlocks' = memoryBlocks
          /\ mem' = [mem EXCEPT !.pc = "catch", !.failure = "node"]
    /\ UNCHANGED <<envVars, unitVars, now, clockVars, running, cpuVars,
                   memoryAllocated, bwVars, procVars, ctlVars>>

\* lines 150-152: catch (const std::bad_alloc&), lock_guard on consoleMutex
Mem_catch ==
    /\ Alive
    /\ mem.pc = "catch"
    /\ consoleMutex = "free"
    /\ consoleMutex' = "mem"
    /\ mem' = [mem EXCEPT !.pc = "report"]
    /\ UNCHANGED <<envVars, unitVars, now, clockVars, running, cpuVars,
                   memoryAllocated, memoryBlocks, bwVars, console, terminated,
                   ctlVars>>

\* an allocator that ends the test when it has reported the failure
Mem_report_clearing_running ==
    /\ Alive
    /\ mem.pc = "report"
    /\ console' = Append(console, [text |-> "Memory allocation failed"])
    /\ consoleMutex' = "free"
    /\ running' = FALSE
    /\ mem' = [mem EXCEPT !.pc = "done", !.reports = @ + 1]
    /\ UNCHANGED <<envVars, unitVars, now, clockVars, cpuVars, memoryAllocated,
                   memoryBlocks, bwVars, terminated, ctlVars>>

\* lines 153-157: the diagnostic is printed, the lock released, the thread
\* function returns
Mem_report ==
    /\ Alive
    /\ mem.pc = "report"
    /\ console' = Append(console, [text |-> "Memory allocation failed"])
    /\ consoleMutex' = "free"
    /\ mem' = [mem EXCEPT !.pc = "done", !.reports = @ + 1]
    /\ UNCHANGED <<envVars, unitVars, now, clockVars, running, cpuVars,
                   memoryAllocated, memoryBlocks, bwVars, terminated,
                   ctlVars>>

(***************************************************************************)
(* Bandwidth sampler: MemoryStressTest::continuousBandwidthTest and        *)
(* measureMemoryBandwidth                                                  *)
(***************************************************************************)
NoBw == [pc |-> "none", i |-> 0, validTests |-> 0, totalBandwidth |-> 0,
         sawStop |-> FALSE]
NewBwThread == [pc |-> "begin", i |-> 0, validTests |-> 0,
                totalBandwidth |-> 0, sawStop |-> FALSE]

\* MiB/s figures one pass over the buffer can yield in the model
Throughputs == {400000, 600000}

Max2(a, b) == IF a >= b THEN a ELSE b

\* line 91: std::max({readBW, writeBW, randomBW * 2})
MaxBW(readBW, writeBW, randomBW) == Max2(readBW, Max2(writeBW, randomBW * 2))

\* a sanity check with no upper limit
ValidBW_unbounded(maxBW) == maxBW > 0

\* line 93: the sanity check
ValidBW(maxBW) == maxBW > 0 /\ maxBW < 1000000

\* One iteration of the measurement on its own: the three passes with the
\* durations the clock gave them, the maximum and the sanity check.
\* what a double division by a zero duration yields
Infinity == 2^29

\* the result of one pass in MiB/s, line 21 (and 35, 63):
\* (size / 1024 / 1024) / (duration.count() / 1e9), durations in microseconds
BandwidthOf(duration) ==
    IF duration = 0 THEN Infinity
    ELSE ((BANDWIDTH_TEST_SIZE \div blockSize) * 1000000) \div duration

\* Durations in microseconds that the two clock readings of a pass may
\* differ by; high_resolution_clock need not be steady, so the difference
\* may be zero or negative.  All of them divide the size exactly.
PassDurations ==
    {-2 * BandwidthTestBlocks, 0, 1, BandwidthTestBlocks,
     2 * BandwidthTestBlocks, 4 * BandwidthTestBlocks}

NoProbe == [pc |-> "none", readBW |-> 0, writeBW |-> 0, randomBW |-> 0,
            maxBW |-> 0, valid |-> FALSE]

\* line 80: an iteration of the loop begins
Probe_begin ==
    /\ Alive
    /\ ctl = "probe"
    /\ probe.pc \in {"none", "done"}
    /\ probe' = [NoProbe EXCEPT !.pc = "passes"]
    /\ UNCHANGED <<envVars, pool, list, ptr, now, clockVars, running, cpuVars,
                   memVars, bwVars, procVars, ctlVars>>

\* lines 82-88: the three passes of one iteration
Probe_passes ==
    /\ Alive
    /\ probe.pc = "passes"
    /\ \E r \in PassDurations, w \in PassDurations, x \in PassDurations :
          probe' = [probe EXCEPT !.pc = "check",
                                 !.readBW = BandwidthOf(r),
                                 !.writeBW = BandwidthOf(w),
                                 !.randomBW = BandwidthOf(x)]
    /\ UNCHANGED <<envVars, pool, list, ptr, now, clockVars, running, cpuVars,
                   memVars, bwVars, procVars, ctlVars>>

\* lines 91-96: the maximum and the sanity check
Probe_check ==
    /\ Alive
    /\ probe.pc = "check"
    /\ probe' = [probe EXCEPT
                   !.pc = "done",
                   !.maxBW = MaxBW(probe.readBW, probe.writeBW,
                                   probe.randomBW),
                   !.valid = ValidBW(MaxBW(probe.readBW, probe.writeBW,
                                           probe.randomBW))]
    /\ UNCHANGED <<envVars, pool, list, ptr, now, clockVars, running, cpuVars,
                   memVars, bwVars, procVars, ctlVars>>

\* line 109: bandwidthTestRunning = true
Bw_begin ==
    /\ Alive
    /\ bw.pc = "begin"
    /\ bandwidthTestRunning' = TRUE
    /\ bw' = [bw EXCEPT !.pc = "buffer"]
    /\ UNCHANGED <<envVars, unitVars, now, clockVars, running, cpuVars,
                   memVars, memoryBandwidth, bandwidthTestBuffer, procVars,
                   ctlVars>>

\* lines 67-77: the buffer is allocated on first use; std::bad_alloc thrown
\* here has no handler in the thread function, so std::terminate is called
Bw_buffer ==
    /\ Alive
    /\ bw.pc = "buffer"
    /\ \/ /\ bandwidthTestBuffer' = TRUE
          /\ bw' = [bw EXCEPT !.pc = "iter", !.i = 0, !.validTests = 0,
                              !.totalBandwidth = 0]
          /\ UNCHANGED terminated
       \/ /\ ~bandwidthTestBuffer
          /\ terminated' = TRUE
          /\ UNCHANGED <<bandwidthTestBuffer, bw>>
    /\ UNCHANGED <<envVars, unitVars, now, clockVars, running, cpuVars,
                   memVars, memoryBandwidth, bandwidthTestRunning, console,
                   consoleMutex, ctlVars>>

\* lines 80-100: for (i = 0; i < BANDWIDTH_ITERATIONS && bandwidthTestRunning;
\* ++i) with one iteration's three passes, the maximum and the sanity check;
\* the index vector of performRandomAccess (line 41) may throw
\* std::bad_alloc, which again has no handler
Bw_iter ==
    /\ Alive
    /\ bw.pc = "iter"
    /\ IF bw.i < BANDWIDTH_ITERATIONS /\ bandwidthTestRunning
       THEN \/ /\ \E readBW \in Throughputs, writeBW \in Throughputs,
                     randomBW \in Throughputs :
                     LET maxBW == MaxBW(readBW, writeBW, randomBW)
                     IN bw' = [bw EXCEPT
                                 !.i = @ + 1,
                                 !.totalBandwidth =
                                     IF ValidBW(maxBW) THEN @ + maxBW ELSE @,
                                 !.validTests =
                                     IF ValidBW(maxBW) THEN @ + 1 ELSE @]
               /\ UNCHANGED terminated
            \/ /\ terminated' = TRUE
               /\ UNCHANGED bw
       ELSE /\ bw' = [bw EXCEPT !.pc = "publish"]
            /\ UNCHANGED terminated
    /\ UNCHANGED <<envVars, unitVars, now, clockVars, running, cpuVars,
                   memVars, memoryBandwidth, bandwidthTestRunning,
                   bandwidthTestBuffer, console, consoleMutex, ctlVars>>

\* a publication that stores 0 when no iteration was valid
Bw_publish_storing_zero ==
    /\ Alive
    /\ bw.pc = "publish"
    /\ memoryBandwidth' =
           IF bw.validTests > 0
           THEN bw.totalBandwidth \div bw.validTests
           ELSE 0
    /\ bw' = [bw EXCEPT !.pc = "loop"]
    /\ UNCHANGED <<envVars, unitVars, now, clockVars, running, cpuVars,
                   memVars, bandwidthTestRunning, bandwidthTestBuffer,
                   procVars, ctlVars>>

\* lines 102-105: publish the mean of the valid iterations, if any
Bw_publish ==
    /\ Alive
    /\ bw.pc = "publish"
    /\ memoryBandwidth' =
           IF bw.validTests > 0
           THEN bw.totalBandwidth \div bw.validTests
           ELSE memoryBandwidth
    /\ bw' = [bw EXCEPT !.pc = "loop"]
    /\ UNCHANGED <<envVars, unitVars, now, clockVars, running, cpuVars,
                   memVars, bandwidthTestRunning, bandwidthTestBuffer,
                   procVars, ctlVars>>

\* a sampler that takes one more round of measurements after it has read
\* the cleared flag
Bw_loop_measuring_once_more ==
    /\ Alive
    /\ bw.pc = "loop"
    /\ bw' = [bw EXCEPT
                !.pc = IF \/ /\ running
                             /\ shouldContinue(TEST_DURATION)
                             /\ bandwidthTestRunning
                          \/ ~running /\ ~bw.sawStop
                       THEN "buffer" ELSE "end",
                !.sawStop = @ \/ ~running]
    /\ UNCHANGED <<envVars, unitVars, now, clockVars, running, cpuVars,
                   memVars, memoryBandwidth, bandwidthTestRunning,
                   bandwidthTestBuffer, procVars, ctlVars>>

\* lines 115-117: while (running && shouldContinue(...) &&
\* bandwidthTestRunning) { sleep_for(2 s); measureMemoryBandwidth(); }
Bw_loop ==
    /\ Alive
    /\ bw.pc = "loop"
    /\ bw' = [bw EXCEPT
                !.pc = IF /\ running
                          /\ shouldContinue(TEST_DURATION)
                          /\ bandwidthTestRunning
                       THEN "buffer" ELSE "end",
                !.sawStop = @ \/ ~running]
    /\ UNCHANGED <<envVars, unitVars, now, clockVars, running, cpuVars,
                   memVars, memoryBandwidth, bandwidthTestRunning,
                   bandwidthTestBuffer, procVars, ctlVars>>

\* line 120: bandwidthTestRunning = false
Bw_end ==
    /\ Alive
    /\ bw.pc = "end"
    /\ bandwidthTestRunning' = FALSE
    /\ bw' = [bw EXCEPT !.pc = "done"]
    /\ UNCHANGED <<envVars, unitVars, now, clockVars, running, cpuVars,
                   memVars, memoryBandwidth, bandwidthTestBuffer, procVars,
                   ctlVars>>

(***************************************************************************)
(* MemoryStressTest: the public interface, as a client thread drives it    *)
(***************************************************************************)
\* MemoryStressTest::initialize
Mem_initialize ==
    /\ Alive
    /\ ctl \in {"new", "joined"}
    /\ memoryAllocated' = 0
    /\ memoryBandwidth' = 0
    /\ running' = TRUE
    /\ bandwidthTestRunning' = FALSE
    /\ ctl' = "init"
    /\ UNCHANGED <<envVars, unitVars, now, clockVars, cpuVars, memoryBlocks,
                   mem, bandwidthTestBuffer, bw, procVars, cycles>>

\* MemoryStressTest::start
Mem_start ==
    /\ Alive
    /\ ctl \in {"init", "joined"}
    /\ cycles < MaxCycles
    /\ mem' = NewMemThread
    /\ bw' = NewBwThread
    /\ ctl' = "started"
    /\ cycles' = cycles + 1
    /\ UNCHANGED <<envVars, unitVars, now, clockVars, running, cpuVars,
                   memoryAllocated, memoryBlocks, memoryBandwidth,
                   bandwidthTestRunning, bandwidthTestBuffer, procVars>>

\* MemoryStressTest::stop, line 177: running = false
Mem_stop_running ==
    /\ Alive
    /\ ctl \in {"init", "started"}
    /\ running' = FALSE
    /\ ctl' = "stopping"
    /\ UNCHANGED <<envVars, unitVars, now, clockVars, cpuVars, memVars, bwVars,
                   procVars, cycles>>

\* MemoryStressTest::stop, line 178: bandwidthTestRunning = false
Mem_stop ==
    /\ Alive
    /\ ctl = "stopping"
    /\ bandwidthTestRunning' = FALSE
    /\ ctl' = "stopped"
    /\ UNCHANGED <<envVars, unitVars, now, clockVars, running, cpuVars,
                   memVars, memoryBandwidth, bandwidthTestBuffer, bw,
                   procVars, cycles>>

\* MemoryStressTest::waitForCompletion is entered
Mem_waitEnter ==
    /\ Alive
    /\ ctl = "stopped"
    /\ ctl' = "mwaiting"
    /\ UNCHANGED <<envVars, unitVars, now, clockVars, running, cpuVars,
                   memVars, bwVars, procVars, cycles>>

\* a join that gives the retained blocks back
Mem_waitForCompletion_releasing ==
    /\ Alive
    /\ ctl = "mwaiting"
    /\ mem.pc \in {"none", "done"}
    /\ bw.pc \in {"none", "done"}
    /\ mem' = NoMem
    /\ bw' = NoBw
    /\ ctl' = "joined"
    /\ memoryBlocks' = <<>>
    /\ UNCHANGED <<envVars, unitVars, now, clockVars, running, cpuVars,
                   memoryAllocated, memoryBandwidth, bandwidthTestRunning,
                   bandwidthTestBuffer, procVars, cycles>>

\* MemoryStressTest::waitForCompletion returns: both threads, if joinable,
\* have been joined
Mem_waitForCompletion ==
    /\ Alive
    /\ ctl = "mwaiting"
    /\ mem.pc \in {"none", "done"}
    /\ bw.pc \in {"none", "done"}
    /\ mem' = NoMem
    /\ bw' = NoBw
    /\ ctl' = "joined"
    /\ UNCHANGED <<envVars, unitVars, now, clockVars, running, cpuVars,
                   memoryAllocated, memoryBlocks, memoryBandwidth,
                   bandwidthTestRunning, bandwidthTestBuffer, procVars,
                   cycles>>

(***************************************************************************)
(* SystemStressTest::run, the orchestrator of the integrated program.  Its *)
(* worker threads run the same loops as the workers above.                 *)
(***************************************************************************)
\* lines 774-775: numCores = std::thread::hardware_concurrency();
\* assert(numCores > 0 && ...), which aborts the process where it is
\* compiled in
Run_detect ==
    /\ Alive
    /\ ctl = "run"
    /\ numCores' = hwCores
    /\ IF hwCores = 0 /\ AssertsEnabled
       THEN /\ terminated' = TRUE
            /\ UNCHANGED ctl
       ELSE /\ ctl' = "run_timer"
            /\ UNCHANGED terminated
    /\ UNCHANGED <<envVars, unitVars, now, clockVars, running, hashOps, cpu,
                   cpuThreads, memVars, bwVars, console, consoleMutex,
                   cycles>>

\* line 785: timeManager.startTimer()
Run_startTimer ==
    /\ Alive
    /\ ctl = "run_timer"
    /\ startTimer
    /\ ctl' = "run_spawn_cpu"
    /\ UNCHANGED <<envVars, unitVars, now, endTime, testEnded, instance,
                   lastQuery, running, cpuVars, memVars, bwVars, procVars,
                   cycles>>

\* lines 788-791: one cpuHashStressTest thread per detected core
Run_spawn_cpu ==
    /\ Alive
    /\ ctl = "run_spawn_cpu"
    /\ numCores <= MaxCores
    /\ cpuThreads' = cpuThreads \o SeqOfRange(1, numCores)
    /\ cpu' = [w \in Workers |->
                 IF w \in Launched(numCores) THEN NewCpuThread ELSE cpu[w]]
    /\ ctl' = "run_spawn_mem"
    /\ UNCHANGED <<envVars, unitVars, now, clockVars, running, hashOps,
                   numCores, memVars, bwVars, procVars, cycles>>

\* line 794: std::thread memThread(&SystemStressTest::memoryStressTest, this)
Run_spawn_mem ==
    /\ Alive
    /\ ctl = "run_spawn_mem"
    /\ mem' = NewMemThread
    /\ ctl' = "run_spawn_bw"
    /\ UNCHANGED <<envVars, unitVars, now, clockVars, running, cpuVars,
                   memoryAllocated, memoryBlocks, bwVars, procVars, cycles>>

\* line 797: std::thread bandwidthThread(&...::continuousBandwidthTest, this)
Run_spawn_bw ==
    /\ Alive
    /\ ctl = "run_spawn_bw"
    /\ bw' = NewBwThread
    /\ ctl' = "run_monitor"
    /\ UNCHANGED <<envVars, unitVars, now, clockVars, running, cpuVars,
                   memVars, memoryBandwidth, bandwidthTestRunning,
                   bandwidthTestBuffer, procVars, cycles>>

\* lines 800-801: while (timeManager.shouldContinue(TEST_DURATION))
\* { updateDisplay(); ...; updateDisplay takes and releases the console
\* mutex and only reads the metrics
Run_monitor ==
    /\ Alive
    /\ ctl = "run_monitor"
    /\ IF shouldContinue(TEST_DURATION)
       THEN /\ consoleMutex = "free"
            /\ ctl' = "run_cursor"
       ELSE ctl' = "run_stop"
    /\ UNCHANGED <<envVars, unitVars, now, clockVars, running, cpuVars,
                   memVars, bwVars, procVars, cycles>>

\* lines 803-804: sleep_for(250 ms); moveCursor(3, true); }: the cursor
\* sequence is written to std::cout without taking the console mutex
Run_moveCursor ==
    /\ Alive
    /\ ctl = "run_cursor"
    /\ ctl' = "run_monitor"
    /\ UNCHANGED <<envVars, unitVars, now, clockVars, running, cpuVars,
                   memVars, bwVars, procVars, cycles>>

\* line 808: running = false
Run_stop ==
    /\ Alive
    /\ ctl = "run_stop"
    /\ running' = FALSE
    /\ ctl' = "run_stop_bw"
    /\ UNCHANGED <<envVars, unitVars, now, clockVars, cpuVars, memVars, bwVars,
                   procVars, cycles>>

\* line 809: bandwidthTestRunning = false
Run_stop_bw ==
    /\ Alive
    /\ ctl = "run_stop_bw"
    /\ bandwidthTestRunning' = FALSE
    /\ ctl' = "run_end"
    /\ UNCHANGED <<envVars, unitVars, now, clockVars, running, cpuVars,
                   memVars, memoryBandwidth, bandwidthTestBuffer, bw,
                   procVars, cycles>>

\* line 810: timeManager.endTimer()
Run_endTimer ==
    /\ Alive
    /\ ctl = "run_end"
    /\ endTimer
    /\ ctl' = "run_join"
    /\ UNCHANGED <<envVars, unitVars, now, startTime, testStarted, instance,
                   lastQuery, running, cpuVars, memVars, bwVars, procVars,
                   cycles>>

\* a run() that does not wait for its CPU threads
Run_join_without_workers ==
    /\ Alive
    /\ ctl = "run_join"
    /\ mem.pc = "done"
    /\ bw.pc = "done"
    /\ mem' = NoMem
    /\ bw' = NoBw
    /\ ctl' = "run_report"
    /\ UNCHANGED <<envVars, unitVars, now, clockVars, running, cpuVars,
                   memoryAllocated, memoryBlocks, memoryBandwidth,
                   bandwidthTestRunning, bandwidthTestBuffer, procVars,
                   cycles>>

\* a run() that does not join the sampler thread
Run_join_without_sampler ==
    /\ Alive
    /\ ctl = "run_join"
    /\ \A k \in 1..Len(cpuThreads) : cpu[cpuThreads[k]].pc = "done"
    /\ mem.pc = "done"
    /\ cpu' = [w \in Workers |-> NoThread]
    /\ mem' = NoMem
    /\ ctl' = "run_report"
    /\ UNCHANGED <<envVars, unitVars, now, clockVars, running, hashOps,
                   cpuThreads, numCores, memoryAllocated, memoryBlocks,
                   bwVars, procVars, cycles>>

\* lines 813-825: join every CPU thread, the allocator and the sampler
Run_join ==
    /\ Alive
    /\ ctl = "run_join"
    /\ \A k \in 1..Len(cpuThreads) : cpu[cpuThreads[k]].pc = "done"
    /\ mem.pc = "done"
    /\ bw.pc = "done"
    /\ cpu' = [w \in Workers |-> NoThread]
    /\ mem' = NoMem
    /\ bw' = NoBw
    /\ ctl' = "run_report"
    /\ UNCHANGED <<envVars, unitVars, now, clockVars, running, hashOps,
                   cpuThreads, numCores, memoryAllocated, memoryBlocks,
                   memoryBandwidth, bandwidthTestRunning, bandwidthTestBuffer,
                   procVars, cycles>>

\* lines 832-854: what the report prints, read when it is printed
FinalReport ==
    [text |-> "Test Results",
     hashOps |-> hashOps,
     elapsed |-> getElapsedSeconds,
     memory |-> (memoryAllocated + BANDWIDTH_TEST_SIZE) % SizeMod,
     bandwidth |-> memoryBandwidth,
     cores |-> numCores]

\* lines 828-854: the results are printed
Run_report ==
    /\ Alive
    /\ ctl = "run_report"
    /\ console' = Append(console, FinalReport)
    /\ ctl' = "run_cleanup"
    /\ UNCHANGED <<envVars, unitVars, now, clockVars, running, cpuVars,
                   memVars, bwVars, consoleMutex, terminated, cycles>>

\* line 857: TimeManager::cleanup() deletes the singleton
Run_cleanup ==
    /\ Alive
    /\ ctl = "run_cleanup"
    /\ instance' = FALSE
    /\ ctl' = "run_finished"
    /\ UNCHANGED <<envVars, unitVars, now, startTime, endTime, testStarted,
                   testEnded, lastQuery, running, cpuVars, memVars, bwVars,
                   procVars, cycles>>

\* TimeManager::getInstance(): the instance there is, or a new one, whose
\* flags are false and whose time points are value-initialised
getInstance ==
    IF instance
    THEN UNCHANGED <<instance, startTime, endTime, testStarted, testEnded>>
    ELSE /\ instance' = TRUE
         /\ startTime' = 0
         /\ endTime' = 0
         /\ testStarted' = FALSE
         /\ testEnded' = FALSE

\* the thread that called run() asks for the singleton, at the end of run()
\* or after it has returned
Run_getInstance ==
    /\ Alive
    /\ ctl \in {"run_cleanup", "run_finished"}
    /\ getInstance
    /\ lastQuery' = [NoQuery EXCEPT !.op = "getInstance",
                                    !.started = testStarted']
    /\ UNCHANGED <<envVars, unitVars, now, running, cpuVars, memVars, bwVars,
                   procVars, ctlVars>>

(***************************************************************************)
(* SystemStressTest::run of the single-file program src/main.cpp, which    *)
(* has no TimeManager: run() keeps the start instant and the elapsed whole *)
(* seconds in locals.  Its CPU workers test only running, which is what    *)
(* LoopCond amounts to while the TimeManager is never started.  The        *)
(* allocator thread of this program shares nothing with the monitoring     *)
(* loop but the running flag and is not part of this specification.        *)
(* lastQuery holds the local elapsedSeconds, which is also what the latest *)
(* updateDisplay(elapsedSeconds) has shown.                                *)
(***************************************************************************)
\* lines 396-397: numCores = hardware_concurrency(); assert(numCores > 0)
Mono_detect ==
    /\ Alive
    /\ ctl = "mono"
    /\ numCores' = hwCores
    /\ IF hwCores = 0 /\ AssertsEnabled
       THEN /\ terminated' = TRUE
            /\ UNCHANGED ctl
       ELSE /\ ctl' = "mono_start"
            /\ UNCHANGED terminated
    /\ UNCHANGED <<envVars, unitVars, now, clockVars, running, hashOps, cpu,
                   cpuThreads, memVars, bwVars, console, consoleMutex,
                   cycles>>

\* lines 408-425: startTime = steady_clock::now(); one cpuHashStressTest
\* thread per core; int elapsedSeconds = 0
Mono_start ==
    /\ Alive
    /\ ctl = "mono_start"
    /\ numCores <= MaxCores
    /\ startTime' = now
    /\ cpuThreads' = cpuThreads \o SeqOfRange(1, numCores)
    /\ cpu' = [w \in Workers |->
                 IF w \in Launched(numCores) THEN NewCpuThread ELSE cpu[w]]
    /\ lastQuery' = [NoQuery EXCEPT !.op = "elapsedSeconds", !.seconds = 0]
    /\ ctl' = "mono_monitor"
    /\ UNCHANGED <<envVars, unitVars, now, endTime, testStarted, testEnded,
                   instance, running, hashOps, numCores, memVars, bwVars,
                   procVars, cycles>>

\* lines 426-439: while (elapsedSeconds <= TEST_DURATION) { elapsedSeconds =
\* whole seconds since startTime; updateDisplay(elapsedSeconds);
\* sleep_for(250 ms); }
Mono_poll ==
    /\ Alive
    /\ ctl = "mono_monitor"
    /\ IF lastQuery.seconds <= TEST_DURATION
       THEN /\ consoleMutex = "free"
            /\ lastQuery' = [NoQuery EXCEPT !.op = "updateDisplay",
                                            !.seconds = now - startTime]
            /\ UNCHANGED ctl
       ELSE /\ ctl' = "mono_stop"
            /\ UNCHANGED lastQuery
    /\ UNCHANGED <<envVars, unitVars, now, startTime, endTime, testStarted,
                   testEnded, instance, running, cpuVars, memVars, bwVars,
                   procVars, cycles>>

\* line 442: running = false
Mono_stop ==
    /\ Alive
    /\ ctl = "mono_stop"
    /\ running' = FALSE
    /\ ctl' = "mono_join"
    /\ UNCHANGED <<envVars, unitVars, now, clockVars, cpuVars, memVars, bwVars,
                   procVars, cycles>>

\* lines 448-452: every CPU thread is joined
Mono_join ==
    /\ Alive
    /\ ctl = "mono_join"
    /\ \A k \in 1..Len(cpuThreads) : cpu[cpuThreads[k]].pc = "done"
    /\ cpu' = [w \in Workers |-> NoThread]
    /\ ctl' = "mono_report"
    /\ UNCHANGED <<envVars, unitVars, now, clockVars, running, hashOps,
                   cpuThreads, numCores, memVars, bwVars, procVars, cycles>>

\* lines 463-493: endTime = steady_clock::now(); the results are printed
Mono_report ==
    /\ Alive
    /\ ctl = "mono_report"
    /\ endTime' = now
    /\ console' = Append(console,
                         [text |-> "Test Results",
                          hashOps |-> hashOps,
                          elapsed |-> now - startTime,
                          memory |-> memoryAllocated \div blockSize,
                          cores |-> numCores])
    /\ ctl' = "mono_finished"
    /\ UNCHANGED <<envVars, unitVars, now, startTime, testStarted, testEnded,
                   instance, lastQuery, running, cpuVars, memVars, bwVars,
                   consoleMutex, terminated, cycles>>

\* the steady clock advances while the program runs
Mono_advance ==
    /\ Alive
    /\ ctl \in {"mono", "mono_start", "mono_monitor", "mono_stop",
                "mono_join", "mono_report"}
    /\ now < ClockHorizon
    /\ now' = now + TickSeconds
    /\ UNCHANGED <<envVars, unitVars, clockVars, running, cpuVars, memVars,
                   bwVars, procVars, ctlVars>>

(***************************************************************************)
(* Initial states                                                          *)
(***************************************************************************)
\* configurations whose target lies below the bandwidth reservation
SmallConfigs ==
    {c \in {1} \X {k * blockSize : k \in 1..MaxCeilingBlocks} :
        c[1] * c[2] < BANDWIDTH_TEST_SIZE}

\* configurations whose target covers the bandwidth reservation, as the
\* shipped one does (2 x 1024 MiB against 64 MiB)
ReservingConfigs ==
    {c \in {2} \X {k * blockSize :
                       k \in 1..(BandwidthTestBlocks + MaxCeilingBlocks)} :
        /\ c[1] * c[2] >= BANDWIDTH_TEST_SIZE
        /\ c[1] * c[2] <= BANDWIDTH_TEST_SIZE + MaxCeilingBlocks * blockSize}

\* The build type decides only whether assert() is compiled in, and the
\* only assert of the program fails exactly when no core is detected: with
\* at least one core the default build type stands for all three.
Environments ==
    {e \in BuildTypes \X (0..MaxCores) : e[2] = 0 \/ e[1] = "Release"}

\* what holds of every freshly constructed object, whatever the component
InitCommon ==
    /\ now = 0
    /\ startTime = 0
    /\ endTime = 0
    /\ testStarted = FALSE
    /\ testEnded = FALSE
    /\ instance = TRUE
    /\ lastQuery = NoQuery
    /\ hashOps = 0
    /\ running = TRUE
    /\ memoryAllocated = 0
    /\ memoryBandwidth = 0
    /\ bandwidthTestRunning = FALSE
    /\ bandwidthTestBuffer = FALSE
    /\ memoryBlocks = <<>>
    /\ cpuThreads = <<>>
    /\ consoleMutex = "free"
    /\ cpu = [w \in Workers |-> NoThread]
    /\ mem = NoMem
    /\ bw = NoBw
    /\ console = <<>>
    /\ terminated = FALSE
    /\ cycles = 0
    /\ pool = NoPool
    /\ probe = NoProbe
    /\ list = LinkedList
    /\ ptr = nullptr

\* a CPUStressTest right after construction: numCores has no initializer
InitCPU ==
    /\ InitCommon
    /\ CHUNK_SIZE = 1
    /\ \E e \in Environments : buildType = e[1] /\ hwCores = e[2]
    /\ MULTIPLIER = 2
    /\ TARGET_MEMORY = 32 * blockSize
    /\ numCores \in 0..MaxCores
    /\ ctl = "new"

\* the same object built from any of the variants of the worker, which
\* differ in CHUNK_SIZE (1 in the shipped one, 1024 in an earlier one)
InitCPUChunks ==
    /\ InitCommon
    /\ CHUNK_SIZE \in 1..MaxChunk
    /\ \E e \in Environments : buildType = e[1] /\ hwCores = e[2]
    /\ MULTIPLIER = 2
    /\ TARGET_MEMORY = 32 * blockSize
    /\ numCores \in 0..MaxCores
    /\ ctl = "new"

NextCPU ==
    \/ CPU_initialize
    \/ CPU_start
    \/ CPU_stop
    \/ CPU_waitEnter
    \/ CPU_waitForCompletion
    \/ CPU_getHashOperations
    \/ TM_startTimer
    \/ TM_endTimer
    \/ TM_reset
    \/ Tick
    \/ \E w \in Workers : Cpu_outer(w)
    \/ \E w \in Workers : Cpu_inner(w)
    \/ \E w \in Workers : Cpu_compute(w)
    \/ \E w \in Workers : Cpu_chunk(w)
    \/ \E w \in Workers : Cpu_flush(w)

SpecCPU == InitCPU /\ [][NextCPU]_vars

SpecCPUChunks == InitCPUChunks /\ [][NextCPU]_vars

\* The operating system schedules every runnable thread again and again, and
\* join() returns once the joined thread function has returned.
FairnessCPU ==
    /\ \A w \in Workers :
          /\ WF_vars(Cpu_outer(w))
          /\ WF_vars(Cpu_inner(w))
          /\ WF_vars(Cpu_compute(w))
          /\ WF_vars(Cpu_chunk(w))
          /\ WF_vars(Cpu_flush(w))
    /\ WF_vars(CPU_waitForCompletion)

FairSpecCPU == SpecCPU /\ FairnessCPU

\* An initialized CPUStressTest whose clock runs and whose pool holds
\* between 1 and numCores workers, with the manager about to begin; the
\* core counts explored are those of PoolCores
PoolCores == {1, 2}

InitPool ==
    /\ CHUNK_SIZE = 1
    /\ buildType = "Release"
    /\ hwCores \in PoolCores
    /\ MULTIPLIER = 2
    /\ TARGET_MEMORY = 32 * blockSize
    /\ numCores = hwCores
    /\ now = 0
    /\ startTime = 0
    /\ endTime = 0
    /\ testStarted = TRUE
    /\ testEnded = FALSE
    /\ instance = TRUE
    /\ lastQuery = NoQuery
    /\ hashOps = 0
    /\ running = TRUE
    /\ memoryAllocated = 0
    /\ memoryBandwidth = 0
    /\ bandwidthTestRunning = FALSE
    /\ bandwidthTestBuffer = FALSE
    /\ memoryBlocks = <<>>
    /\ \E k \in 1..numCores :
          /\ cpuThreads = SeqOfRange(1, k)
          /\ cpu = [w \in Workers |->
                      IF w <= k THEN NewCpuThread ELSE NoThread]
    /\ consoleMutex = "free"
    /\ mem = NoMem
    /\ bw = NoBw
    /\ console = <<>>
    /\ terminated = FALSE
    /\ cycles = 1
    /\ ctl = "started"
    /\ pool = NewPoolThread
    /\ probe = NoProbe
    /\ list = LinkedList
    /\ ptr = nullptr

NextPool ==
    \/ Pool_loop
    \/ Pool_sample
    \/ Pool_lock
    \/ Pool_decide
    \/ Pool_join
    \/ Pool_sleep
    \/ Pool_updateDisplay
    \/ CPU_stop
    \/ Tick
    \/ \E w \in Workers : Cpu_outer(w)
    \/ \E w \in Workers : Cpu_inner(w)
    \/ \E w \in Workers : Cpu_compute(w)
    \/ \E w \in Workers : Cpu_chunk(w)
    \/ \E w \in Workers : Cpu_flush(w)

SpecPool == InitPool /\ [][NextPool]_vars

\* a client that calls initialize() once, on the fresh object, and then runs
\* cycles of clock reset, clock start, start(), stop(), waitForCompletion()
CPU_initialize_once ==
    /\ ctl = "new"
    /\ CPU_initialize

NextCPUCycles ==
    \/ CPU_initialize_once
    \/ CPU_start
    \/ CPU_stop
    \/ CPU_waitEnter
    \/ CPU_waitForCompletion
    \/ CPU_getHashOperations
    \/ TM_startTimer
    \/ TM_endTimer
    \/ TM_reset
    \/ Tick
    \/ \E w \in Workers : Cpu_outer(w)
    \/ \E w \in Workers : Cpu_inner(w)
    \/ \E w \in Workers : Cpu_compute(w)
    \/ \E w \in Workers : Cpu_chunk(w)
    \/ \E w \in Workers : Cpu_flush(w)

SpecCPUCycles == InitCPU /\ [][NextCPUCycles]_vars

\* a MemoryStressTest right after construction, with a target that covers
\* the bandwidth reservation
InitMem ==
    /\ InitCommon
    /\ CHUNK_SIZE = 1
    /\ buildType = "Release"
    /\ hwCores = 1
    /\ \E c \in ReservingConfigs : MULTIPLIER = c[1] /\ TARGET_MEMORY = c[2]
    /\ numCores = 0
    /\ ctl = "new"

NextMem ==
    \/ Mem_initialize
    \/ Mem_start
    \/ Mem_stop_running
    \/ Mem_stop
    \/ Mem_waitEnter
    \/ Mem_waitForCompletion
    \/ TM_startTimer
    \/ TM_endTimer
    \/ Tick
    \/ Mem_check
    \/ Mem_alloc
    \/ Mem_count
    \/ Mem_insert
    \/ Mem_catch
    \/ Mem_report
    \/ Bw_begin
    \/ Bw_buffer
    \/ Bw_iter
    \/ Bw_publish
    \/ Bw_loop
    \/ Bw_end

SpecMem == InitMem /\ [][NextMem]_vars

\* the same component configured with a target below the reservation
InitMemSmall ==
    /\ InitCommon
    /\ CHUNK_SIZE = 1
    /\ buildType = "Release"
    /\ hwCores = 1
    /\ \E c \in SmallConfigs : MULTIPLIER = c[1] /\ TARGET_MEMORY = c[2]
    /\ numCores = 0
    /\ ctl = "new"

SpecMemSmall == InitMemSmall /\ [][NextMem]_vars

\* core counts explored for the integrated program: none detected, or one
RunCores == {0, 1}

\* the largest of the targets that cover the reservation
RunConfig ==
    CHOOSE c \in ReservingConfigs : \A d \in ReservingConfigs : d[2] <= c[2]

\* the integrated program when run() is entered
Init ==
    /\ InitCommon
    /\ CHUNK_SIZE = 1
    /\ \E e \in Environments :
          e[2] \in RunCores /\ buildType = e[1] /\ hwCores = e[2]
    /\ MULTIPLIER = RunConfig[1]
    /\ TARGET_MEMORY = RunConfig[2]
    /\ numCores = 0
    /\ ctl = "run"

Next ==
    \/ Run_detect
    \/ Run_startTimer
    \/ Run_spawn_cpu
    \/ Run_spawn_mem
    \/ Run_spawn_bw
    \/ Run_monitor
    \/ Run_moveCursor
    \/ Run_stop
    \/ Run_stop_bw
    \/ Run_endTimer
    \/ Run_join
    \/ Run_report
    \/ Run_cleanup
    \/ Tick
    \/ \E w \in Workers : Cpu_outer(w)
    \/ \E w \in Workers : Cpu_inner(w)
    \/ \E w \in Workers : Cpu_compute(w)
    \/ \E w \in Workers : Cpu_chunk(w)
    \/ \E w \in Workers : Cpu_flush(w)
    \/ Mem_check
    \/ Mem_alloc
    \/ Mem_count
    \/ Mem_insert
    \/ Mem_catch
    \/ Mem_report
    \/ Bw_begin
    \/ Bw_buffer
    \/ Bw_iter
    \/ Bw_publish
    \/ Bw_loop
    \/ Bw_end

Spec == Init /\ [][Next]_vars

\* the integrated program and a caller that asks for the singleton at the
\* end of run() and after it
NextSingleton ==
    \/ Run_detect
    \/ Run_startTimer
    \/ Run_spawn_cpu
    \/ Run_spawn_mem
    \/ Run_spawn_bw
    \/ Run_monitor
    \/ Run_moveCursor
    \/ Run_stop
    \/ Run_stop_bw
    \/ Run_endTimer
    \/ Run_join
    \/ Run_report
    \/ Run_cleanup
    \/ Run_getInstance
    \/ Tick
    \/ \E w \in Workers : Cpu_outer(w)
    \/ \E w \in Workers : Cpu_inner(w)
    \/ \E w \in Workers : Cpu_compute(w)
    \/ \E w \in Workers : Cpu_chunk(w)
    \/ \E w \in Workers : Cpu_flush(w)
    \/ Mem_check
    \/ Mem_alloc
    \/ Mem_count
    \/ Mem_insert
    \/ Mem_catch
    \/ Mem_report
    \/ Bw_begin
    \/ Bw_buffer
    \/ Bw_iter
    \/ Bw_publish
    \/ Bw_loop
    \/ Bw_end

SpecSingleton == Init /\ [][NextSingleton]_vars

\* the single-file program when its run() is entered
InitMono ==
    /\ InitCommon
    /\ CHUNK_SIZE = 1
    /\ \E e \in Environments :
          e[2] \in RunCores /\ buildType = e[1] /\ hwCores = e[2]
    /\ MULTIPLIER = RunConfig[1]
    /\ TARGET_MEMORY = RunConfig[2]
    /\ numCores = 0
    /\ ctl = "mono"

NextMono ==
    \/ Mono_detect
    \/ Mono_start
    \/ Mono_poll
    \/ Mono_stop
    \/ Mono_join
    \/ Mono_report
    \/ Mono_advance
    \/ \E w \in Workers : Cpu_outer(w)
    \/ \E w \in Workers : Cpu_inner(w)
    \/ \E w \in Workers : Cpu_compute(w)
    \/ \E w \in Workers : Cpu_chunk(w)
    \/ \E w \in Workers : Cpu_flush(w)

SpecMono == InitMono /\ [][NextMono]_vars

\* a TimeManager right after construction, used by threads directly
InitClock ==
    /\ InitCommon
    /\ CHUNK_SIZE = 1
    /\ buildType = "Release"
    /\ hwCores = 1
    /\ MULTIPLIER = RunConfig[1]
    /\ TARGET_MEMORY = RunConfig[2]
    /\ numCores = 0
    /\ ctl = "clock"

NextClock ==
    \/ Clk_startTimer
    \/ Clk_endTimer
    \/ Clk_reset
    \/ Clk_getElapsed
    \/ Clk_shouldContinue
    \/ Clk_advance

SpecClock == InitClock /\ [][NextClock]_vars

\* the clock with its lock-free getters: the two stores of reset() are
\* steps of their own, between which hasStarted() and hasEnded() may run
NextClockGetters ==
    \/ Clk_startTimer
    \/ Clk_endTimer
    \/ Clk_reset_started
    \/ Clk_reset_ended
    \/ Clk_hasStarted
    \/ Clk_hasEnded
    \/ Clk_getElapsed
    \/ Clk_advance

SpecClockGetters == InitClock /\ [][NextClockGetters]_vars

\* an empty list and a caller that appends to it
InitList ==
    /\ InitCommon
    /\ CHUNK_SIZE = 1
    /\ buildType = "Release"
    /\ hwCores = 1
    /\ MULTIPLIER = RunConfig[1]
    /\ TARGET_MEMORY = RunConfig[2]
    /\ numCores = 0
    /\ ctl = "list"

NextList ==
    \/ List_make
    \/ List_push_back

SpecList == InitList /\ [][NextList]_vars

\* one iteration of measureMemoryBandwidth on an initialized object
InitProbe ==
    /\ InitCommon
    /\ CHUNK_SIZE = 1
    /\ buildType = "Release"
    /\ hwCores = 1
    /\ MULTIPLIER = RunConfig[1]
    /\ TARGET_MEMORY = RunConfig[2]
    /\ numCores = 0
    /\ ctl = "probe"

NextProbe ==
    \/ Probe_begin
    \/ Probe_passes
    \/ Probe_check

SpecProbe == InitProbe /\ [][NextProbe]_vars

(***************************************************************************)
(* Properties of the CPU component                                         *)
(***************************************************************************)
\* C1: after CPUStressTest::stop() has returned, getHashOperations() never
\* increases again, so the value read right after stop() equals the value
\* read after waitForCompletion().
C1_NoIncreaseAfterStop ==
    [][(ctl \in {"stopped", "waiting"}) => (hashOps' <= hashOps)]_vars

\* C1, the case: stop() has returned while a worker that passed the loop
\* test of line 68 has not yet added its computation
C1_StopDuringComputation ==
    /\ ctl = "stopped"
    /\ \E w \in Workers : cpu[w].pc \in {"compute", "chunk"}

\* C2: once the running flag is false and the clock is stopped, no worker
\* begins another computation (each adds at most the one it had begun), every
\* worker terminates and waitForCompletion() returns, and from then on
\* hashOps stays constant for as long as the flag stays false.
C2_WorkersQuiesce ==
    /\ [][(~running /\ testEnded) =>
             \A w \in Workers :
                cpu'[w].pc = "compute" => cpu[w].pc = "compute"]_vars
    /\ (~running /\ testEnded) ~> AllCpuDone
    /\ (ctl = "waiting") ~> (ctl = "joined")
    /\ [][(AllCpuDone /\ ~running /\ ~running') => (hashOps' = hashOps)]_vars

\* C2, the case: workers counted operations, the flag was cleared and the
\* clock stopped while one was in its batch, and the join has returned
C2_StoppedAndJoined ==
    /\ ~running
    /\ testEnded
    /\ ctl = "joined"
    /\ cycles > 0
    /\ hashOps > 0

(***************************************************************************)
(* Properties of the memory component                                      *)
(***************************************************************************)
\* C4: in every reachable state memoryAllocated is at most the target
\* MULTIPLIER x TARGET_MEMORY plus one block, and a reader of
\* getMemoryAllocated() sees at most getTargetMemory() + getBandwidthTestSize().
C4_AllocatedWithinTarget ==
    /\ memoryAllocated <= MULTIPLIER * TARGET_MEMORY + blockSize
    /\ memoryAllocated <= getTargetMemory + getBandwidthTestSize

\* C4, the case: the allocator has filled its ceiling while the test runs
C4_CeilingReachedWhileRunning ==
    /\ ctl = "started"
    /\ running
    /\ memoryAllocated > 0
    /\ memoryAllocated = AllocCeiling

\* C5: with the bandwidth buffer reserved separately, in every reachable
\* state memoryAllocated + BANDWIDTH_TEST_SIZE is at most
\* MULTIPLIER x TARGET_MEMORY, so the reported peak never exceeds the target.
C5_PeakWithinTarget ==
    memoryAllocated + BANDWIDTH_TEST_SIZE <= MULTIPLIER * TARGET_MEMORY

\* C5, the case: the allocator has ended with the peak equal to the target
C5_PeakEqualsTarget ==
    /\ mem.pc = "done"
    /\ mem.failure = "none"
    /\ memoryAllocated > 0
    /\ memoryAllocated + BANDWIDTH_TEST_SIZE = MULTIPLIER * TARGET_MEMORY

\* C6: for every target that is a positive multiple of the block size, also
\* one below the bandwidth reservation, the allocator stops at the target:
\* memoryAllocated never exceeds MULTIPLIER x TARGET_MEMORY.
C6_StopsAtSmallCeiling ==
    memoryAllocated <= MULTIPLIER * TARGET_MEMORY

\* C6, the case: a target of one block, below the reservation, and the
\* allocator has passed its loop test with the target already reached
C6_AllocatingBeyondTarget ==
    /\ MULTIPLIER * TARGET_MEMORY = blockSize
    /\ memoryAllocated = blockSize
    /\ mem.pc = "alloc"

\* C7: when the allocation of a block fails, the allocator allocates no more
\* in that run, reports the failure exactly once and under the console mutex,
\* does not count the failed block, keeps the blocks it retained, and the
\* failure changes neither running nor hashOps nor memoryBandwidth.
C7_AllocationFailureContained ==
    /\ [](mem.failure = "block" =>
             /\ mem.pc \in {"catch", "report", "done"}
             /\ mem.reports = (IF mem.pc = "done" THEN 1 ELSE 0)
             /\ (mem.pc = "report" => consoleMutex = "mem"))
    /\ [][(mem'.failure = "block") =>
             /\ memoryAllocated' = memoryAllocated
             /\ memoryBlocks' = memoryBlocks
             /\ (mem.failure = "none" =>
                    /\ running' = running
                    /\ hashOps' = hashOps
                    /\ memoryBandwidth' = memoryBandwidth)]_vars

\* C7, the case: a block allocation failed after blocks had been retained,
\* and the allocator has reported it and returned
C7_FailureAfterRetainedBlocks ==
    /\ mem.failure = "block"
    /\ mem.pc = "done"
    /\ mem.reports = 1
    /\ Len(memoryBlocks) > 0
    /\ memoryAllocated = Len(memoryBlocks) * blockSize

\* C8: an allocation failure inside a worker thread, the sampler's buffer
\* and the index vector of performRandomAccess included, never escapes the
\* thread: the process is never terminated.
C8_NoFailureEscapes ==
    ~terminated

\* C8, the case: the sampler is about to allocate its buffer or its index
\* vector
C8_SamplerAboutToAllocate ==
    /\ bw.pc \in {"buffer", "iter"}
    /\ ~terminated

\* C9: after an allocation failure in the allocator exactly one error report
\* has been emitted once the allocator has returned, and the process has not
\* crashed.
C9_FailureReportedProcessAlive ==
    (mem.failure = "block" /\ mem.pc = "done") =>
        (mem.reports = 1 /\ ~terminated)

\* C9, the case: the allocator has reported a failed block allocation while
\* the sampler is still measuring
C9_FailureWhileSampling ==
    /\ mem.failure = "block"
    /\ mem.pc = "done"
    /\ bw.pc = "iter"
    /\ ~terminated

(***************************************************************************)
(* Properties of the integrated program                                    *)
(***************************************************************************)
\* C3: a worker of any kind that has read the running flag as false writes
\* none of hashOps, memoryAllocated and memoryBandwidth any more, except that
\* a CPU worker adds to hashOps the operations it had already completed; it
\* begins and completes no further operation.
C3_NoWriteAfterObservedStop ==
    [][/\ \A w \in Workers :
             (cpu[w].sawStop /\ cpu'[w] # cpu[w]) =>
                 /\ cpu'[w].pc # "compute"
                 /\ hashOps' =
                      hashOps + cpu[w].localHashOps - cpu'[w].localHashOps
                 /\ memoryAllocated' = memoryAllocated
                 /\ memoryBandwidth' = memoryBandwidth
       /\ ((mem.sawStop /\ mem' # mem) \/ (bw.sawStop /\ bw' # bw)) =>
             /\ hashOps' = hashOps
             /\ memoryAllocated' = memoryAllocated
             /\ memoryBandwidth' = memoryBandwidth]_vars

\* C3, the case: a CPU worker inside a batch, the allocator and the sampler
\* have each read the flag as false
C3_AllKindsObservedStop ==
    /\ \E w \in Workers : cpu[w].sawStop /\ cpu[w].pc = "flush"
    /\ mem.sawStop
    /\ bw.sawStop

\* C10: when hardware_concurrency() yields 0, run() aborts before any worker
\* thread is spawned, whatever the build type: no CPU worker, allocator or
\* sampler thread ever exists.
C10_NoWorkerWithoutCores ==
    hwCores = 0 =>
        /\ \A w \in Workers : cpu[w].pc = "none"
        /\ mem.pc = "none"
        /\ bw.pc = "none"

\* C10, the case: no core was detected and run() has passed the detection
C10_ZeroCoresPastDetection ==
    /\ hwCores = 0
    /\ numCores = 0
    /\ ctl = "run_timer"

\* C11: from initialize() until all workers are joined, hashOps and
\* memoryAllocated are each non-decreasing: no step other than a call of
\* initialize() lowers either of them.
C11_CountersNonDecreasing ==
    [][(~(ctl # "init" /\ ctl' = "init")) =>
          /\ hashOps' >= hashOps
          /\ memoryAllocated' >= memoryAllocated]_vars

\* C11, the case: both counters have grown and the workers are still running
C11_BothCountersGrown ==
    /\ hashOps > 0
    /\ memoryAllocated > 0
    /\ ctl = "run_monitor"
    /\ \E w \in Workers : cpu[w].pc = "chunk"
    /\ mem.pc = "count"

\* C12: within one run the running flag changes only from true to false,
\* and only by the controller (stop(), or run() after its monitoring loop),
\* never by a worker; it becomes true again only by initialize(), which
\* begins another run; and when run() reports, the change has happened.
C12_RunningClearedOnceByController ==
    /\ [][(running' # running) =>
             /\ cpu' = cpu /\ mem' = mem /\ bw' = bw
             /\ \/ /\ running /\ ~running'
                   /\ ctl' \in {"stopped", "stopping", "run_stop_bw"}
                \/ /\ ~running /\ running'
                   /\ ctl \in {"new", "joined"} /\ ctl' = "init"]_vars
    /\ [](ctl \in {"run_join", "run_report", "run_cleanup", "run_finished"}
             => ~running)

\* C12, the case: run() has just cleared the flag while workers are in
\* their loops
C12_ClearedWhileWorkersRun ==
    /\ ~running
    /\ ctl = "run_stop_bw"
    /\ mem.pc = "alloc"
    /\ \E w \in Workers : cpu[w].pc = "compute"

\* C13: run() shuts down in order: the running flag is cleared before the
\* clock is stopped, both before the joins, and the metrics are read for the
\* report only when every CPU worker, the allocator and the sampler have
\* been joined; the reported figures are final: they equal the metrics ever
\* after.
C13_OrderedShutdown ==
    /\ ctl = "run_end" => ~running /\ ~testEnded
    /\ ctl = "run_join" => ~running /\ testEnded
    /\ ctl \in {"run_report", "run_cleanup", "run_finished"} =>
          /\ ~running /\ testEnded
          /\ \A w \in Workers : cpu[w].pc = "none"
          /\ mem.pc = "none"
          /\ bw.pc = "none"
    /\ ctl \in {"run_cleanup", "run_finished"} =>
          /\ Len(console) > 0
          /\ console[Len(console)] = FinalReport

\* C13, the case: the report has been printed after a run in which all three
\* metrics were written
C13_ReportedAfterWork ==
    /\ ctl = "run_finished"
    /\ hashOps > 0
    /\ memoryAllocated > 0
    /\ memoryBandwidth > 0

(***************************************************************************)
(* Properties of the clock                                                 *)
(***************************************************************************)
\* C14: start and stop of the clock are idempotent: a startTimer() on a
\* started clock, so also one after endTimer(), leaves the start instant as
\* the first call recorded it, and an endTimer() on an ended clock leaves
\* the end instant unchanged; the instants change only when the clock
\* starts, respectively ends.
C14_StartStopIdempotent ==
    /\ [][(Clk_startTimer /\ testStarted) =>
             /\ startTime' = startTime
             /\ endTime' = endTime
             /\ testEnded' = testEnded]_vars
    /\ [][(Clk_endTimer /\ testEnded) =>
             /\ endTime' = endTime
             /\ startTime' = startTime]_vars
    /\ [][(startTime' # startTime) =>
             ~testStarted /\ testStarted' /\ startTime' = now]_vars
    /\ [][(endTime' # endTime) =>
             testStarted /\ ~testEnded /\ testEnded' /\ endTime' = now]_vars

\* C14, the case: the clock was started and ended at different instants, and
\* time has passed since, so that a further call would move an instant
C14_EndedEarlier ==
    /\ ctl = "clock"
    /\ testStarted /\ testEnded
    /\ startTime < endTime
    /\ endTime < now

\* C15: between resets the elapsed time, in seconds and in milliseconds,
\* never decreases from one instant to a later one, so successive readings by
\* any threads are non-decreasing; and once the clock has ended every reading
\* is the frozen value endTime - startTime, however much time passes.
C15_ElapsedMonotoneThenFrozen ==
    /\ [][(~Clk_reset) =>
             /\ getElapsedSeconds' >= getElapsedSeconds
             /\ getElapsedMilliseconds' >= getElapsedMilliseconds]_vars
    /\ [][(testEnded /\ ~Clk_reset) =>
             /\ getElapsedSeconds' = getElapsedSeconds
             /\ getElapsedSeconds' = endTime - startTime
             /\ getElapsedMilliseconds' = (endTime - startTime) * 1000]_vars

\* C15, the case: a thread has read the frozen value after the clock ended
\* and time went on
C15_ReadAfterEnd ==
    /\ ctl = "clock"
    /\ testEnded
    /\ endTime < now
    /\ lastQuery.op = "getElapsed"
    /\ lastQuery.seconds > 0
    /\ lastQuery.seconds = endTime - startTime

\* C16: a shouldContinue(maxDurationSeconds) call on a clock that has not been
\* started answers true for every maxDurationSeconds, and on a started clock
\* answers exactly elapsed seconds < maxDurationSeconds.  The code computes
\* 0.0 < maxDurationSeconds on an unstarted clock, which is false for a zero
\* or negative duration: the statement is violated.
C16_ContinuesWheneverUnstarted ==
    lastQuery.op = "shouldContinue" =>
        lastQuery.continue = IF ~lastQuery.started
                             THEN TRUE
                             ELSE lastQuery.seconds < lastQuery.arg

\* C16, the case: an unstarted clock was asked with a duration that is not
\* positive and answered false
C16_UnstartedAnswersFalse ==
    /\ lastQuery.op = "shouldContinue"
    /\ ~lastQuery.started
    /\ lastQuery.arg <= 0
    /\ ~lastQuery.continue

\* C17: under any interleaving of startTimer(), endTimer() and the queries,
\* with no reset, the clock only moves unstarted -> started -> ended:
\* hasStarted() once true stays true, hasEnded() once true stays true, an ended
\* clock has been started, and endTimer() on an unstarted clock changes
\* nothing (hasEnded() stays false, the elapsed time stays 0).
C17_StartedThenEndedOnly ==
    /\ [][(~Clk_reset) =>
             /\ testStarted => testStarted'
             /\ testEnded => testEnded']_vars
    /\ [][(Clk_endTimer /\ ~testStarted) =>
             /\ ~testEnded'
             /\ ~testStarted'
             /\ endTime' = endTime
             /\ getElapsedSeconds' = 0
             /\ getElapsedMilliseconds' = 0]_vars
    /\ [][(testEnded' /\ ~testEnded) => testStarted /\ testStarted']_vars
    /\ [](testEnded => testStarted)

\* C17, the case: the clock went through all three states and was queried
\* while started and again when ended
C17_QueriedWhenEnded ==
    /\ ctl = "clock"
    /\ testStarted
    /\ testEnded
    /\ lastQuery.op = "shouldContinue"
    /\ lastQuery.started
    /\ lastQuery.seconds = endTime - startTime
    /\ lastQuery.seconds > 0

\* C18: after reset() the clock is like a fresh one: hasStarted() and
\* hasEnded() are false and the elapsed time reads 0; the next startTimer()
\* records the current instant as the start, and the readings of that cycle
\* are measured from it alone, so they do not depend on the instants of the
\* cycle before.
C18_ResetGivesFreshClock ==
    /\ [][Clk_reset =>
             /\ ~testStarted'
             /\ ~testEnded'
             /\ getElapsedSeconds' = 0
             /\ getElapsedMilliseconds' = 0]_vars
    /\ [][(Clk_startTimer /\ ~testStarted) =>
             /\ testStarted'
             /\ ~testEnded'
             /\ startTime' = now
             /\ getElapsedSeconds' = 0]_vars
    /\ [](testStarted /\ ~testEnded => getElapsedSeconds = now - startTime)
    /\ [](testStarted /\ testEnded =>
             /\ startTime <= endTime
             /\ endTime <= now
             /\ getElapsedSeconds = endTime - startTime)
    /\ [](getElapsedSeconds >= 0 /\ getElapsedSeconds <= now)

\* C18, the case: a second cycle, started after the first one had ended and
\* the clock was reset, is read while it runs
C18_SecondCycleRead ==
    /\ ctl = "clock"
    /\ testStarted
    /\ ~testEnded
    /\ endTime > 0
    /\ startTime > endTime
    /\ lastQuery.op = "getElapsed"
    /\ lastQuery.seconds = now - startTime
    /\ lastQuery.seconds > 0

\* C19: in every reachable state the published bandwidth is either 0 (never
\* measured) or lies in (0, 1000000] MiB/s; it is never negative.
C19_BandwidthInRange ==
    \/ memoryBandwidth = 0
    \/ memoryBandwidth > 0 /\ memoryBandwidth <= 1000000

\* C19, the case: a round in which an iteration was rejected by the sanity
\* check has published the mean of the others
C19_PublishedWithRejection ==
    /\ bw.pc = "loop"
    /\ bw.i = BANDWIDTH_ITERATIONS
    /\ bw.validTests > 0
    /\ bw.validTests < bw.i
    /\ memoryBandwidth = bw.totalBandwidth \div bw.validTests

\* C20: a sampling round with no valid iteration, also one cut short to zero
\* iterations by stop, leaves memoryBandwidth at the value published before;
\* any other round publishes the arithmetic mean of its valid iterations,
\* each of which passed the sanity check; between initialisations nothing
\* else writes memoryBandwidth.
C20_PublishesMeanOfValidOnly ==
    /\ [][(bw.pc = "publish" /\ bw'.pc = "loop") =>
             IF bw.validTests = 0
             THEN memoryBandwidth' = memoryBandwidth
             ELSE /\ memoryBandwidth' * bw.validTests <= bw.totalBandwidth
                  /\ (memoryBandwidth' + 1) * bw.validTests > bw.totalBandwidth]_vars
    /\ [][(memoryBandwidth' # memoryBandwidth /\ ~Mem_initialize) =>
             bw.pc = "publish" /\ bw.validTests > 0]_vars
    /\ [](/\ bw.validTests >= 0
          /\ bw.validTests <= bw.i
          /\ bw.totalBandwidth > 0 * bw.validTests - 1
          /\ bw.totalBandwidth < 1000000 * bw.validTests + 1
          /\ bw.validTests = 0 <=> bw.totalBandwidth = 0)

\* C20, the case: after a published measurement a later round ended with no
\* valid iteration
C20_EmptyRoundAfterPublication ==
    /\ bw.pc = "loop"
    /\ bw.validTests = 0
    /\ memoryBandwidth > 0

\* C21: initialize() puts the component in its default state, whatever the
\* values were before the call: when CPUStressTest::initialize() has returned
\* hashOps = 0, the core count is positive and running is true; when
\* MemoryStressTest::initialize() has returned memoryAllocated = 0,
\* memoryBandwidth = 0 and running is true.  In the Release build a system
\* that reports no core leaves the core count at 0: the statement is
\* violated.
C21_InitializeGivesDefaults ==
    /\ [][(CPU_initialize /\ ~terminated') =>
             /\ hashOps' = 0
             /\ numCores' > 0
             /\ running']_vars
    /\ [][Mem_initialize =>
             /\ memoryAllocated' = 0
             /\ memoryBandwidth' = 0
             /\ running']_vars

\* C21, the case: initialize() has returned on a system that reports no core
C21_InitializedWithoutCores ==
    /\ ctl = "init"
    /\ hwCores = 0
    /\ numCores = 0
    /\ hashOps = 0
    /\ running
    /\ ~terminated

\* C22: a freshly constructed CPUStressTest, before initialize() is called,
\* reports a core count of 0, hashOps = 0 and running false.  The member
\* initializer of running is true and numCores has no initializer: the
\* statement is violated.
C22_FreshObjectReportsIdle ==
    ctl = "new" =>
        /\ numCores = 0
        /\ hashOps = 0
        /\ ~running

\* C22, the case: a fresh object whose flag is set and whose core count holds
\* an arbitrary value
C22_FreshObjectRunning ==
    /\ ctl = "new"
    /\ running
    /\ numCores # 0
    /\ hashOps = 0
    /\ cpuThreads = <<>>

\* C23: after a single initialize(), every cycle of clock reset, clock start,
\* start(), stop() and waitForCompletion() produces new work: the value of
\* hashOps when waitForCompletion() returns is strictly greater than the
\* value the client read before the cycle's start().  stop() clears running
\* and only initialize() sets it again, so the workers of a second cycle
\* leave at once: the statement is violated.
C23_EveryCycleProducesWork ==
    [][(CPU_waitForCompletion /\ lastQuery.op = "getHashOperations") =>
          hashOps' > lastQuery.value]_vars

\* C23, the case: a first cycle produced work, the clock was reset and
\* started again, and a second cycle has been joined with hashOps at the
\* value read before its start()
C23_SecondCycleWithoutWork ==
    /\ ctl = "joined"
    /\ cycles = 2
    /\ testStarted
    /\ ~testEnded
    /\ getElapsedSeconds < TEST_DURATION
    /\ lastQuery.op = "getHashOperations"
    /\ lastQuery.value > 0
    /\ hashOps = lastQuery.value

\* C24: no hash operation is counted unless start() has been called: as long
\* as start() was never called no worker thread exists and hashOps is 0, and
\* hashOps grows only in a step of a worker thread; stop() followed by
\* waitForCompletion() without a start() does not block and returns with
\* hashOps = 0 and running false.
C24_NothingCountedWithoutStart ==
    /\ [](cycles = 0 =>
             /\ hashOps = 0
             /\ cpuThreads = <<>>
             /\ \A w \in Workers : cpu[w].pc = "none")
    /\ [][(hashOps' > hashOps) =>
             \E w \in Workers : cpu[w].pc = "chunk" \/ cpu[w].pc = "flush"]_vars
    /\ []((ctl = "waiting" /\ cycles = 0 /\ Alive) =>
             ENABLED CPU_waitForCompletion)
    /\ [][(CPU_waitForCompletion /\ cycles = 0) =>
             /\ hashOps' = 0
             /\ ~running'
             /\ ctl' = "joined"]_vars

\* C24, the case: initialize(), stop() and waitForCompletion() have returned
\* and start() was never called
C24_StoppedWithoutStart ==
    /\ ctl = "joined"
    /\ cycles = 0
    /\ numCores > 0
    /\ hashOps = 0
    /\ ~running

\* C25: retained memory blocks are never released while the component
\* lives: every step leaves the blocks already in the retention list in place
\* and at most appends to it, and reaching the ceiling, the exit of the
\* allocator thread, an allocation failure, stop() and waitForCompletion()
\* neither remove a block nor lower memoryAllocated.
C25_RetainedBlocksNeverReleased ==
    /\ [][/\ Len(memoryBlocks') >= Len(memoryBlocks)
          /\ SubSeq(memoryBlocks', 1, Len(memoryBlocks)) = memoryBlocks]_vars
    /\ [][(~Mem_initialize) => memoryAllocated' >= memoryAllocated]_vars
    /\ [][(\/ mem.pc # mem'.pc /\ mem'.pc \in {"done", "catch", "report", "none"}
           \/ ctl # ctl' /\ ctl' \in {"stopping", "stopped", "mwaiting", "joined"}) =>
             /\ memoryBlocks' = memoryBlocks
             /\ memoryAllocated' = memoryAllocated]_vars

\* C25, the case: the allocator failed after it had retained blocks, the
\* component was stopped and joined, and the blocks are still there
C25_BlocksKeptAfterJoin ==
    /\ ctl = "joined"
    /\ Len(memoryBlocks) >= 2
    /\ memoryAllocated >= Len(memoryBlocks) * blockSize
    /\ Len(console) > 0
    /\ ~running

\* C26: in every reachable state memoryAllocated is an exact multiple of the
\* block size of 1 MiB (1048576 bytes), and apart from the reset to 0 by
\* initialize() it only ever changes by one block size upwards, once per
\* allocated block.
C26_WholeBlocksOnly ==
    /\ [](memoryAllocated % 1048576 = 0 /\ memoryAllocated % blockSize = 0)
    /\ [][(memoryAllocated' # memoryAllocated /\ ~Mem_initialize) =>
             /\ memoryAllocated' = memoryAllocated + blockSize
             /\ mem.pc = "count"]_vars

\* C26, the case: two blocks have been counted and retained while the test
\* runs
C26_TwoBlocksCounted ==
    /\ ctl = "started"
    /\ running
    /\ Len(memoryBlocks) = 2
    /\ memoryAllocated = 2 * blockSize

\* C27: a CPU worker adds to the shared counter hashOps in batches: it
\* performs an atomic add only when it has completed a whole batch of
\* BATCH_SIZE computations or when it leaves the batch loop with a partial
\* batch, never after an individual computation in the middle of a batch.
\* With CHUNK_SIZE = 1 the code adds after every computation: the statement
\* is violated.
C27_OneAddPerBatch ==
    [][(hashOps' # hashOps /\ hashOps' # 0) =>
          \E w \in Workers :
             /\ cpu'[w] # cpu[w]
             /\ \/ cpu[w].pc = "flush"
                \/ cpu[w].pc = "chunk" /\ cpu[w].i + 1 = BATCH_SIZE]_vars

\* C27, the case: a worker in the middle of a batch has already added its
\* first computation to hashOps and holds no local count
C27_AddedInMidBatch ==
    \E w \in Workers :
       /\ cpu[w].pc = "inner"
       /\ cpu[w].i = 1
       /\ cpu[w].i < BATCH_SIZE
       /\ cpu[w].localHashOps = 0
       /\ hashOps = 1

\* C28: no hash operation is lost or counted twice, for any CHUNK_SIZE and
\* BATCH_SIZE: hashOps plus the workers' local counts grows by exactly one
\* in the step that completes a computation and is left unchanged by every
\* other step (initialize() apart, which resets the counter), so that it
\* always equals the number of computations completed; and a worker that has
\* terminated, also one that left in the middle of a batch, holds no local
\* count, so that hashOps then is the number of completed computations.
C28_NoOperationLostOrDoubled ==
    /\ [][(~CPU_initialize) =>
             hashOps' + SumLocal(Workers)' =
                 hashOps + SumLocal(Workers) +
                 (IF \E w \in Workers :
                        cpu[w].pc = "compute" /\ cpu'[w].pc = "chunk"
                  THEN 1 ELSE 0)]_vars
    /\ [](\A w \in Workers :
             /\ cpu[w].pc \in {"done", "none"} => cpu[w].localHashOps = 0
             /\ cpu[w].localHashOps >= 0
             /\ cpu[w].pc # "chunk" => cpu[w].localHashOps < CHUNK_SIZE)

\* C28, the case: with two computations to a chunk a worker was stopped
\* after one computation and has terminated, its partial count added
C28_PartialBatchFlushed ==
    \E w \in Workers :
       /\ CHUNK_SIZE = 2
       /\ cpu[w].pc = "done"
       /\ cpu[w].sawStop
       /\ cpu[w].localHashOps = 0
       /\ hashOps = 1
       /\ hashOps < BATCH_SIZE

\* C29: ending the timer signals the end of the test to the workers: once
\* endTimer() has taken effect on a started clock shouldContinue(TEST_DURATION)
\* is false, and the loop tests of the allocator and of the sampler made from
\* then on leave their loops, also when stop() has not been called.  The
\* elapsed time of an ended clock is frozen at endTime - startTime, which is
\* below TEST_DURATION when the timer was ended early, so shouldContinue
\* remains true: the statement is violated.
C29_EndTimerEndsTheLoops ==
    /\ []((testStarted /\ testEnded) => ~shouldContinue(TEST_DURATION))
    /\ [][(testStarted /\ testEnded /\ mem.pc = "check" /\ mem'.pc # "check") =>
             mem'.pc = "done"]_vars
    /\ [][(testStarted /\ testEnded /\ bw.pc = "loop" /\ bw'.pc # "loop") =>
             bw'.pc = "end"]_vars

\* C29, the case: the timer was ended early, stop() has not been called, and
\* the allocator and the sampler are at loop tests that will both pass
C29_EndedEarlyLoopsGoOn ==
    /\ testStarted
    /\ testEnded
    /\ endTime - startTime < TEST_DURATION
    /\ ctl = "started"
    /\ running
    /\ bandwidthTestRunning
    /\ shouldContinue(TEST_DURATION)
    /\ mem.pc = "check"
    /\ memoryAllocated < AllocCeiling
    /\ bw.pc = "loop"

\* C30: the controller stresses the system for TEST_DURATION seconds: its
\* monitoring loop shows a display update only for an elapsed time below
\* TEST_DURATION, and the first poll at which the elapsed time has reached
\* TEST_DURATION leaves the loop, so that running is cleared then and not a
\* poll or a second later.  The loop of src/main.cpp (line 426) tests
\* elapsedSeconds <= TEST_DURATION on the reading of the poll before: the
\* statement is violated.
C30_MonitorStopsAtDuration ==
    /\ [](lastQuery.op = "updateDisplay" => lastQuery.seconds < TEST_DURATION)
    /\ [][(Mono_poll /\ now - startTime >= TEST_DURATION) =>
             ctl' = "mono_stop"]_vars
    /\ [](ctl = "mono_monitor" => lastQuery.seconds < TEST_DURATION)

\* C30, the case: the display has shown an elapsed time of TEST_DURATION
\* seconds and the monitoring loop goes on with running still set
C30_DisplayedAtDuration ==
    /\ ctl = "mono_monitor"
    /\ running
    /\ lastQuery.op = "updateDisplay"
    /\ lastQuery.seconds = TEST_DURATION
    /\ now - startTime >= TEST_DURATION


(***************************************************************************)
(* C31: under manageThreadPool, started on a pool of between 1 and         *)
(* numCores workers, the number of threads in the pool is at least 1 and   *)
(* at most numCores in every reachable state; the pool grows only by one   *)
(* worker, with a load above 0.75 and a pool below numCores, and shrinks   *)
(* only by one worker, with a load below 0.25 and more than one worker.    *)
(***************************************************************************)
C31_PoolWithinCores ==
    /\ [](Len(cpuThreads) \in 1..numCores)
    /\ [][(Len(cpuThreads') > Len(cpuThreads)) =>
             /\ pool.systemLoad > HighWaterMark
             /\ Len(cpuThreads) < numCores
             /\ Len(cpuThreads') = Len(cpuThreads) + 1]_vars
    /\ [][(Len(cpuThreads') < Len(cpuThreads)) =>
             /\ pool.systemLoad < LowWaterMark
             /\ Len(cpuThreads) > 1
             /\ Len(cpuThreads') = Len(cpuThreads) - 1]_vars

\* the manager has added a worker and later removed one
C31_AddedThenRemoved ==
    \E i, j \in DOMAIN console :
        /\ i < j
        /\ console[i].text = "Adding thread due to high load"
        /\ console[j].text = "Removing thread due to low load"

(***************************************************************************)
(* C32: a removal that manageThreadPool has begun (load below 0.25, more   *)
(* than one worker) completes while the test is still running: the join of *)
(* the last worker returns and the pool shrinks while running is set and   *)
(* the clock has not expired, and while the manager waits in that join the *)
(* client can refresh the display.                                         *)
(***************************************************************************)
C32_RemovalCompletesWhileRunning ==
    /\ [][(pool.pc = "join" /\ pool'.pc = "sleep") => LoopCond]_vars
    /\ []((pool.pc = "join" /\ ctl = "started" /\ LoopCond) =>
             ENABLED Pool_updateDisplay)

\* the manager waits in the join with the console lock held while the test
\* runs and the worker it waits for goes on computing
C32_RemovalBlockedWhileRunning ==
    /\ pool.pc = "join"
    /\ consoleMutex = "pool"
    /\ ctl = "started"
    /\ LoopCond
    /\ cpu[cpuThreads[Len(cpuThreads)]].pc = "compute"
    /\ ~ENABLED Pool_join

(***************************************************************************)
(* C33: while worker threads are alive every console write of the          *)
(* orchestrator (the display refresh and the cursor movement of the        *)
(* monitoring loop) is made with consoleMutex taken for it, so none is     *)
(* made while the allocator holds the mutex for its failure diagnostic;    *)
(* and the allocator writes its diagnostic only while it holds the mutex.  *)
(***************************************************************************)
C33_ConsoleWritesExclusive ==
    /\ [][((ctl = "run_monitor" /\ ctl' = "run_cursor") \/
           (ctl = "run_cursor" /\ ctl' = "run_monitor")) =>
             consoleMutex = "free"]_vars
    /\ [][(mem.pc = "report" /\ mem'.pc # "report") =>
             consoleMutex = "mem"]_vars

\* the allocator holds the mutex and is about to write its diagnostic while
\* the orchestrator is about to write the cursor movement
C33_CursorMoveDuringDiagnostic ==
    /\ mem.pc = "report"
    /\ consoleMutex = "mem"
    /\ ctl = "run_cursor"
    /\ ENABLED Run_moveCursor
    /\ ENABLED Mem_report

(***************************************************************************)
(* C34: the result r = max(read, write, 2 x random) of one iteration is    *)
(* counted as valid exactly when 0 < r <= 1000000 MiB/s: 1000000 itself is *)
(* accepted; zero, negative and larger results, the infinite result of a   *)
(* zero duration among them, are discarded.                                *)
(***************************************************************************)
C34_ValidExactlyInRange ==
    probe.pc = "done" =>
        /\ probe.maxBW = Max2(probe.readBW,
                              Max2(probe.writeBW, 2 * probe.randomBW))
        /\ probe.valid <=> (0 < probe.maxBW /\ probe.maxBW <= 1000000)

\* an iteration whose result is exactly 1000000 MiB/s has been checked
C34_ResultExactlyAtBound ==
    /\ probe.pc = "done"
    /\ probe.maxBW = 1000000
    /\ probe.readBW = 1000000

(***************************************************************************)
(* C35: once MemoryStressTest::stop() has returned, the sampler begins no  *)
(* further iteration of the measurement, whatever the interleaving of      *)
(* stop() with the sampler thread; hence it publishes no bandwidth value   *)
(* obtained from such an iteration.                                        *)
(***************************************************************************)
C35_NoIterationAfterStop ==
    [][(ctl \in {"stopped", "mwaiting"}) => ~(bw'.i > bw.i)]_vars

\* stop() has returned, and the sampler, which began only afterwards, has
\* set bandwidthTestRunning again and has published the mean of a round
\* measured after the stop
C35_PublishedAfterEarlyStop ==
    /\ ctl \in {"stopped", "mwaiting"}
    /\ ~running
    /\ bandwidthTestRunning
    /\ bw.pc = "loop"
    /\ bw.i = BANDWIDTH_ITERATIONS
    /\ bw.validTests = BANDWIDTH_ITERATIONS
    /\ memoryBandwidth > 0
    /\ cycles = 1

(***************************************************************************)
(* C36: whenever the allocator thread is not inside an iteration of its    *)
(* loop (not started, at the loop test, or finished), memoryAllocated is   *)
(* 1 MiB times the number of blocks in the retention list, after any       *)
(* sequence of initialize(), start(), stop() and waitForCompletion() and   *)
(* after a failed allocation of a block or of a list node.                 *)
(***************************************************************************)
C36_CounterMatchesList ==
    (mem.pc \in {"none", "check", "done"}) =>
        memoryAllocated = blockSize * Len(memoryBlocks)

\* a second initialize() on an object that retains the blocks of its first
\* cycle
C36_ReinitializedWithBlocks ==
    /\ ctl = "init"
    /\ cycles = 1
    /\ mem.pc = "none"
    /\ Len(memoryBlocks) > 0
    /\ memoryAllocated = 0

(***************************************************************************)
(* C37: in every state that the lock-free getters can observe, also while  *)
(* startTimer(), endTimer() or reset() is being executed by another        *)
(* thread, hasEnded() implies hasStarted().                                *)
(***************************************************************************)
C37_EndedImpliesStarted == hasEnded => hasStarted

\* inside a reset() of an ended clock a thread has read hasStarted() as
\* false while hasEnded() is still true
C37_ReadInsideReset ==
    /\ ctl = "clock_reset"
    /\ lastQuery.op = "hasStarted"
    /\ ~lastQuery.started
    /\ hasEnded
    /\ ENABLED Clk_hasEnded

(***************************************************************************)
(* C38: in run() the singleton clock is deleted only by cleanup(), after   *)
(* every CPU worker, the allocator and the sampler have been joined, so    *)
(* while any of these threads exists the instance exists; getInstance()    *)
(* returns the existing instance with its state untouched as long as there *)
(* is one, and after cleanup() a new one that is neither started nor       *)
(* ended and reads 0 elapsed seconds.                                      *)
(***************************************************************************)
C38_ClockOutlivesThreads ==
    /\ []((\E w \in Workers : cpu[w].pc # "none") \/ mem.pc # "none"
             \/ bw.pc # "none" \/ ctl # "run_finished" => instance)
    /\ [][(instance /\ ~instance') => ctl = "run_cleanup"]_vars
    /\ [][(instance /\ lastQuery' # lastQuery
             /\ lastQuery'.op = "getInstance") =>
             /\ instance'
             /\ UNCHANGED <<startTime, endTime, testStarted, testEnded>>]_vars
    /\ []((ctl = "run_finished" /\ instance) =>
             ~hasStarted /\ ~hasEnded /\ getElapsedSeconds = 0)

\* run() has worked with one instance, started and ended, which was asked
\* for again before cleanup(), and a new instance has been made after it
C38_FreshInstanceAfterCleanup ==
    /\ ctl = "run_finished"
    /\ instance
    /\ lastQuery.op = "getInstance"
    /\ hashOps > 0
    /\ memoryAllocated > 0
    /\ \E k \in DOMAIN console :
          console[k].text = "Test Results" /\ console[k].elapsed > 0

(***************************************************************************)
(* C39: after n appends to an initially empty LinkedList getSize() is n;   *)
(* the nodes are linked from head to tail in the order of insertion, tail  *)
(* is the node appended last and its next is null; size never decreases;   *)
(* and an append moves the value into the list, leaving the caller's       *)
(* unique_ptr null.                                                        *)
(***************************************************************************)
C39_AppendsKeepOrderAndSize ==
    /\ [](/\ getSize(list) = list.allocated
          /\ Chain(list, list.head, MaxAppends + 1) =
                 SeqOfRange(1, list.allocated)
          /\ list.tail = list.allocated
          /\ (list.head = nullptr) <=> (getSize(list) = 0)
          /\ list.tail # nullptr => list.next[list.tail] = nullptr)
    /\ [][getSize(list') >= getSize(list)]_vars
    /\ [][(list' # list) =>
             /\ ptr # nullptr
             /\ ptr' = nullptr
             /\ getSize(list') = getSize(list) + 1
             /\ Contents(list') = Append(Contents(list), ptr)]_vars

\* two unique_ptrs, to 100 and to 200, have been appended in this order and
\* the caller's pointer is null
C39_TwoPointersAppended ==
    /\ getSize(list) = 2
    /\ Contents(list) = <<100, 200>>
    /\ list.head # list.tail
    /\ list.next[list.head] = list.tail
    /\ ptr = nullptr
=============================================================================
